---- MODULE Spec2Model ----
(***************************************************************************)
(* A model of cannon-rs: the page-addressed Merkle memory of               *)
(* crates/mipsevm (page.rs, memory.rs) and the MIPS interpreter            *)
(* (mips/instrumented.rs, mips/mips_vm.rs).                                *)
(*                                                                         *)
(* Representation.                                                         *)
(*  - A u32 is the pair <<hi, lo>> of its 16-bit halves (TLC's integers     *)
(*    are 32-bit signed).  `+` on u32 is modelled as the wrapping sum of   *)
(*    a build without overflow checks (the release profile).               *)
(*  - A 32-byte block is either raw page data (a sequence of 32 bytes) or  *)
(*    a keccak digest.  keccak is an ideal (injective) hash in normal      *)
(*    form: <<"H", l, r>> is keccak(l || r), except that                   *)
(*    keccak(ZERO_HASHES[i] || ZERO_HASHES[i]) is written <<"Z", i+1>>,    *)
(*    which is ZERO_HASHES[i+1] by page.rs:17-23.                          *)
(*  - An Option is <<>> (None) or <<x>> (Some(x)).                         *)
(*  - An Rc<RefCell<CachedPage>> is a handle: an index into `cells`.       *)
(***************************************************************************)
EXTENDS Integers, Sequences, FiniteSets, TLC

VARIABLES
    memory,     \* the Memory under test / State.memory: [nodes, pages, last_page]
    cells,      \* the heap of RefCell<CachedPage> objects, indexed by handle
    state,      \* the scalar fields of State (State.memory is `memory`)
    inst,       \* the fields of InstrumentedState besides `state`
    ret,        \* the last operation called and what it returned
    hint_writer, \* the task that owns the HintWriter: its hints and where it is
    hint_reader, \* the task that owns the HintReader: its routers and where it is
    channel,    \* the two pipes of create_bidirectional_channel
    oracle_client, \* the task that owns the OracleClient and where it is
    oracle_server, \* the task that owns the OracleServer and where it is
    mpsc,       \* the two std::sync::mpsc channels between them
    kernel,     \* the locals of Kernel::run, its io tasks and the files written
    clone       \* a clone of `memory`: a Memory over the same `cells`

vars == <<memory, cells, state, inst, ret, hint_writer, hint_reader, channel,
          oracle_client, oracle_server, mpsc, kernel, clone>>

\* the variables of the hint channel, and those of the emulator
hintVars == <<hint_writer, hint_reader, channel>>

vmVars == <<memory, cells, state, inst, ret>>

\* the variables of the preimage oracle channel
oracleVars == <<oracle_client, oracle_server, mpsc>>

\* no HintWriter, no HintReader and no channel have been created
NoHints == hint_writer = <<>> /\ hint_reader = <<>> /\ channel = <<>>

\* no OracleClient and no OracleServer have been created
NoOracle == oracle_client = <<>> /\ oracle_server = <<>> /\ mpsc = <<>>

\* Kernel::run has not been called
NoKernel == kernel = <<>>

\* the Memory has not been cloned
NoClone == clone = <<>>

---------------------------------------------------------------------------
(* u32 values as <<hi, lo>>                                                *)

HALF == 2 ^ 16

U32(n) == <<n \div HALF, n % HALF>>

Hi(x) == x[1]

Lo(x) == x[2]

\* a + b on u32, wrapping
Add32(a, b) ==
    LET lo == Lo(a) + Lo(b)
        hi == Hi(a) + Hi(b) + (lo \div HALF)
    IN  <<hi % HALF, lo % HALF>>

\* a - b on u32, wrapping
Sub32(a, b) ==
    LET lo == Lo(a) - Lo(b)
        hi == Hi(a) - Hi(b) - (IF lo < 0 THEN 1 ELSE 0)
    IN  <<hi % HALF, lo % HALF>>

\* bitwise operations on 16-bit halves
RECURSIVE And16(_, _)
And16(a, b) ==
    IF a = 0 \/ b = 0 THEN 0
    ELSE (a % 2) * (b % 2) + 2 * And16(a \div 2, b \div 2)

\* a & b, a | b, a ^ b, !a on u32
And32(a, b) == <<And16(Hi(a), Hi(b)), And16(Lo(a), Lo(b))>>

Or32(a, b) ==
    <<Hi(a) + Hi(b) - And16(Hi(a), Hi(b)), Lo(a) + Lo(b) - And16(Lo(a), Lo(b))>>

Xor32(a, b) ==
    <<Hi(a) + Hi(b) - 2 * And16(Hi(a), Hi(b)), Lo(a) + Lo(b) - 2 * And16(Lo(a), Lo(b))>>

Not32(a) == <<HALF - 1 - Hi(a), HALF - 1 - Lo(a)>>

\* a << n and a >> n on u32; the shift amount is taken modulo 32, as a build
\* without overflow checks does
Shl32(a, n) ==
    LET k == n % 32
    IN  IF k < 16
        THEN <<(Hi(a) % (2 ^ (16 - k))) * (2 ^ k) + (Lo(a) * (2 ^ k)) \div HALF,
               (Lo(a) * (2 ^ k)) % HALF>>
        ELSE <<(Lo(a) * (2 ^ (k - 16))) % HALF, 0>>

Shr32(a, n) ==
    LET k == n % 32
    IN  IF k < 16
        THEN <<Hi(a) \div (2 ^ k), Lo(a) \div (2 ^ k) + (Hi(a) % (2 ^ k)) * (2 ^ (16 - k))>>
        ELSE <<0, Hi(a) \div (2 ^ (k - 16))>>

\* a < b on u32, and on the same bits read as i32
Lt32(a, b) == Hi(a) < Hi(b) \/ (Hi(a) = Hi(b) /\ Lo(a) < Lo(b))

Negative(a) == Hi(a) >= HALF \div 2

SLt32(a, b) ==
    IF Negative(a) # Negative(b) THEN Negative(a) ELSE Lt32(a, b)

\* mutant: little-endian
to_le_bytes(v) == <<Lo(v) % 256, Lo(v) \div 256, Hi(v) % 256, Hi(v) \div 256>>

\* value.to_be_bytes()
to_be_bytes(v) == <<Hi(v) \div 256, Hi(v) % 256, Lo(v) \div 256, Lo(v) % 256>>

\* u32::from_be_bytes(b)
from_be_bytes(b) == <<b[1] * 256 + b[2], b[3] * 256 + b[4]>>

\* 64 - g.leading_zeros(): the number of powers of two that are <= g; the
\* generalized indices of the model stay below 2 ^ 30
BitLen(g) == Cardinality({k \in 0..29 : 2 ^ k <= g})

None == <<>>

Some(x) == <<x>>

\* a `let` binding whose value is computed once: S is the singleton holding
\* the result computed with the bound value
Bind(S) == CHOOSE x \in S : TRUE

---------------------------------------------------------------------------
(* page.rs                                                                 *)

\* the width of an address inside a page.  page.rs:8 has 12 (pages of 4096
\* bytes); the model runs with narrower pages, every other constant being
\* derived from this one as in page.rs:9-14
PAGE_ADDRESS_SIZE == 7

\* the width of an Address (types.rs:32), the `32` of page.rs:9
ADDRESS_BITS == 32

\* a leaf has 1 << 5 bytes: the `5` of page.rs:11
LEAF_BITS == 5

PAGE_KEY_SIZE == ADDRESS_BITS - PAGE_ADDRESS_SIZE

PAGE_SIZE == 2 ^ PAGE_ADDRESS_SIZE

PAGE_SIZE_WORDS == PAGE_SIZE \div (2 ^ LEAF_BITS)

PAGE_ADDRESS_MASK == PAGE_SIZE - 1

MAX_PAGE_COUNT == 2 ^ PAGE_KEY_SIZE

PAGE_KEY_MASK == MAX_PAGE_COUNT - 1

\* the depth of the whole tree: proofs have PROOF_DEPTH + 1 entries (28)
PROOF_DEPTH == ADDRESS_BITS - LEAF_BITS

ZeroBlock == [i \in 1..(2 ^ LEAF_BITS) |-> 0]

ZERO_HASHES(i) == IF i = 0 THEN ZeroBlock ELSE <<"Z", i>>

IsZeroHash(b) == b = ZeroBlock \/ Len(b) = 2

ZeroLevel(b) == IF b = ZeroBlock THEN 0 ELSE b[2]

\* keccak256(a || b) of two 32-byte blocks
keccak_concat_fixed(a, b) ==
    IF a = b /\ IsZeroHash(a) THEN ZERO_HASHES(ZeroLevel(a) + 1) ELSE <<"H", a, b>>

\* data[start .. start + 32]
Block(data, start) == [i \in 1..(2 ^ LEAF_BITS) |-> data[start + i - 1]]

\* keccak256(&data[start .. start + 64])
keccak256_64(data, start) ==
    keccak_concat_fixed(Block(data, start), Block(data, start + 2 ^ LEAF_BITS))

\* CachedPage::default()
DefaultPage ==
    [data  |-> [i \in 0..(PAGE_SIZE - 1) |-> 0],
     cache |-> [i \in 0..(PAGE_SIZE_WORDS - 1) |-> ZeroBlock],
     valid |-> {}]

\* CachedPage::is_valid: bit 127 - key of the bitmap; `valid` is the set of
\* keys whose bit is set
is_valid(page, key) == key \in page.valid

\* CachedPage::invalidate: clears the bits at positions 127 - key and above,
\* that is the keys k with 127 - k >= 127 - key
PageInvalidate(page, page_addr) ==
    LET key == (PAGE_SIZE + page_addr) \div (2 ^ (LEAF_BITS + 1))
    IN  [page EXCEPT !.valid =
            {k \in @ : (PAGE_SIZE_WORDS - 1) - k < (PAGE_SIZE_WORDS - 1) - key}]

\* CachedPage::invalidate_full
invalidate_full(page) == [page EXCEPT !.valid = {}]

\* CachedPage::fill_cache: [page, hash]
RECURSIVE fill_cache(_, _)
fill_cache(page, g_index) ==
    IF is_valid(page, g_index)
    THEN [page |-> page, hash |-> page.cache[g_index]]
    ELSE IF g_index >= PAGE_SIZE_WORDS \div 2
    THEN LET data_idx == (g_index - (PAGE_SIZE_WORDS \div 2)) * (2 ^ (LEAF_BITS + 1))
             hash == keccak256_64(page.data, data_idx)
         IN  [page |-> [page EXCEPT !.valid = @ \cup {g_index}, !.cache[g_index] = hash],
              hash |-> hash]
    ELSE LET left_child == g_index * 2
             right_child == left_child + 1
             l == fill_cache(page, left_child)
             r == fill_cache(l.page, right_child)
             hash == keccak_concat_fixed(r.page.cache[left_child], r.page.cache[right_child])
         IN  [page |-> [r.page EXCEPT !.valid = @ \cup {g_index}, !.cache[g_index] = hash],
              hash |-> hash]

\* CachedPage::merkleize_subtree: [page, ok, val]
PageMerkleizeSubtree(page, g_index) ==
    IF g_index >= PAGE_SIZE_WORDS /\ g_index < PAGE_SIZE_WORDS * 2
    THEN LET node_index == g_index % PAGE_SIZE_WORDS
             start == node_index * (2 ^ LEAF_BITS)
         IN  [page |-> page, ok |-> TRUE, val |-> Block(page.data, start)]
    ELSE IF g_index >= PAGE_SIZE_WORDS * 2
    THEN [page |-> page, ok |-> FALSE, val |-> None]
    ELSE LET f == fill_cache(page, g_index)
         IN  [page |-> f.page, ok |-> TRUE, val |-> f.hash]

---------------------------------------------------------------------------
(* memory.rs                                                               *)

\* the page index !0u64 of an empty last_page slot: no page has it
NO_KEY == 0 - 1

\* the handle of an empty last_page slot (Option::None)
NO_PAGE == 0

\* Memory::default()
DefaultMemory ==
    [nodes     |-> [g \in {} |-> None],
     pages     |-> [i \in {} |-> NO_PAGE],
     last_page |-> <<<<NO_KEY, NO_PAGE>>, <<NO_KEY, NO_PAGE>>>>]

\* address >> PAGE_ADDRESS_SIZE
PageIndexOf(address) ==
    Hi(address) * (HALF \div PAGE_SIZE) + Lo(address) \div PAGE_SIZE

\* address & PAGE_ADDRESS_MASK
PageAddrOf(address) == Lo(address) % PAGE_SIZE

\* mutant: only the lowest bit is tested
Unaligned_LowBit(address) == Lo(address) % 2 # 0

\* address & 0x3 != 0
Unaligned(address) == Lo(address) % 4 # 0

\* address & (1 << bit) != 0
AddrBit(address, bit) ==
    IF bit >= 16 THEN (Hi(address) \div (2 ^ (bit - 16))) % 2 = 1
    ELSE (Lo(address) \div (2 ^ bit)) % 2 = 1

\* the keys a `while key > 0 { nodes.insert(key, None); key >>= 1 }` loop inserts
Branch(key) == {key \div (2 ^ k) : k \in 0..PAGE_KEY_SIZE} \ {0}

InsertNone(nodes, keys) ==
    [g \in (DOMAIN nodes) \cup keys |-> IF g \in keys THEN None ELSE nodes[g]]

\* Memory::page_lookup: [m, page]; the first slot whose key matches decides
page_lookup(m, page_index) ==
    LET hit == IF m.last_page[1][1] = page_index THEN m.last_page[1]
               ELSE IF m.last_page[2][1] = page_index THEN m.last_page[2]
               ELSE <<NO_KEY, NO_PAGE>>
    IN  IF hit[2] # NO_PAGE
        THEN [m |-> m, page |-> hit[2]]
        ELSE IF page_index \in DOMAIN m.pages
        THEN [m    |-> [m EXCEPT !.last_page =
                            <<<<page_index, m.pages[page_index]>>, m.last_page[1]>>],
              page |-> m.pages[page_index]]
        ELSE [m |-> m, page |-> NO_PAGE]

\* Memory::alloc_page: [m, c, page]
alloc_page(m, c, page_index) ==
    LET page == Len(c) + 1
        key  == (2 ^ PAGE_KEY_SIZE) + page_index
    IN  [m    |-> [m EXCEPT
                      !.pages = [i \in (DOMAIN @) \cup {page_index} |->
                                    IF i = page_index THEN page ELSE @[i]],
                      !.nodes = InsertNone(@, Branch(key))],
         c    |-> Append(c, DefaultPage),
         page |-> page]

\* mutant: the overlay ancestors are never invalidated
MemInvalidate_PageOnly(m, c, address) ==
    LET l == page_lookup(m, PageIndexOf(address))
    IN  IF l.page = NO_PAGE
        THEN [m |-> l.m, c |-> c]
        ELSE [m |-> l.m, c |-> [c EXCEPT ![l.page] = PageInvalidate(@, PageAddrOf(address))]]

\* Memory::invalidate (called on aligned addresses only): [m, c]
MemInvalidate(m, c, address) ==
    LET l == page_lookup(m, PageIndexOf(address))
    IN  IF l.page = NO_PAGE
        THEN [m |-> l.m, c |-> c]
        ELSE LET prev_valid == ~ is_valid(c[l.page], 1)
                 c2 == [c EXCEPT ![l.page] = PageInvalidate(@, PageAddrOf(address))]
                 g_index == (2 ^ PAGE_KEY_SIZE) + PageIndexOf(address)
             IN  IF prev_valid
                 THEN [m |-> l.m, c |-> c2]
                 ELSE [m |-> [l.m EXCEPT !.nodes = InsertNone(@, Branch(g_index))],
                       c |-> c2]

\* data[page_address .. page_address + n] = bytes
CopyFromSlice(data, page_address, bytes) ==
    [i \in DOMAIN data |->
        IF i >= page_address /\ i < page_address + Len(bytes)
        THEN bytes[i - page_address + 1] ELSE data[i]]

\* Memory::set_memory: [m, c, ok]
set_memory(m, c, address, value) ==
    IF Unaligned(address)
    THEN [m |-> m, c |-> c, ok |-> FALSE]
    ELSE LET page_index == PageIndexOf(address)
             page_address == PageAddrOf(address)
             l == page_lookup(m, page_index)
             s == IF l.page # NO_PAGE
                  THEN LET i == MemInvalidate(l.m, c, address)
                       IN  [m |-> i.m, c |-> i.c, page |-> l.page]
                  ELSE LET a == alloc_page(l.m, c, page_index)
                       IN  [m |-> a.m,
                            c |-> [a.c EXCEPT ![a.page] = PageInvalidate(@, page_address)],
                            page |-> a.page]
         IN  [m  |-> s.m,
              c  |-> [s.c EXCEPT ![s.page].data =
                         CopyFromSlice(@, page_address, to_be_bytes(value))],
              ok |-> TRUE]

\* Memory::get_memory: [m, ok, val]
get_memory(m, c, address) ==
    IF Unaligned(address)
    THEN [m |-> m, ok |-> FALSE, val |-> U32(0)]
    ELSE LET l == page_lookup(m, PageIndexOf(address))
             page_address == PageAddrOf(address)
         IN  IF l.page # NO_PAGE
             THEN [m |-> l.m, ok |-> TRUE,
                   val |-> from_be_bytes([i \in 1..4 |-> c[l.page].data[page_address + i - 1]])]
             ELSE [m |-> l.m, ok |-> TRUE, val |-> U32(0)]

\* Memory::merkleize_subtree: [m, c, ok, val]
RECURSIVE merkleize_subtree(_, _, _)
merkleize_subtree(m, c, g_index) ==
    LET bits == BitLen(g_index)
    IN  CASE bits > PROOF_DEPTH + 1 ->
                [m |-> m, c |-> c, ok |-> FALSE, val |-> None]
          [] bits <= PROOF_DEPTH + 1 /\ bits > PAGE_KEY_SIZE ->
                LET depth_into_page == bits - 1 - PAGE_KEY_SIZE
                    page_index == (g_index \div (2 ^ depth_into_page)) % MAX_PAGE_COUNT
                IN  IF page_index \notin DOMAIN m.pages
                    THEN [m |-> m, c |-> c, ok |-> TRUE,
                          val |-> ZERO_HASHES(PROOF_DEPTH + 1 - bits)]
                    ELSE LET page_g_index == (2 ^ depth_into_page)
                                             + (g_index % (2 ^ depth_into_page))
                             p == PageMerkleizeSubtree(c[m.pages[page_index]], page_g_index)
                         IN  [m |-> m, c |-> [c EXCEPT ![m.pages[page_index]] = p.page],
                              ok |-> p.ok, val |-> p.val]
          [] bits <= PAGE_KEY_SIZE /\ g_index \notin DOMAIN m.nodes ->
                [m |-> m, c |-> c, ok |-> TRUE, val |-> ZERO_HASHES(PROOF_DEPTH + 1 - bits)]
          [] bits <= PAGE_KEY_SIZE /\ g_index \in DOMAIN m.nodes /\ m.nodes[g_index] # None ->
                [m |-> m, c |-> c, ok |-> TRUE, val |-> m.nodes[g_index][1]]
          [] bits <= PAGE_KEY_SIZE /\ g_index \in DOMAIN m.nodes /\ m.nodes[g_index] = None ->
                LET left == merkleize_subtree(m, c, g_index * 2)
                    right == merkleize_subtree(left.m, left.c, g_index * 2 + 1)
                    result == keccak_concat_fixed(left.val, right.val)
                IN  IF left.ok
                    THEN IF right.ok
                         THEN [m |-> [right.m EXCEPT !.nodes[g_index] = Some(result)],
                               c |-> right.c, ok |-> TRUE, val |-> result]
                         ELSE right
                    ELSE left

\* Memory::merkle_root
merkle_root(m, c) == merkleize_subtree(m, c, 1)

\* Memory::traverse_branch: [m, c, ok, val]; val is the proof, deepest entry first
RECURSIVE traverse_branch(_, _, _, _, _)
traverse_branch(m, c, parent, address, depth) ==
    CASE depth = PROOF_DEPTH ->
            LET leaf == merkleize_subtree(m, c, parent)
            IN  [m |-> leaf.m, c |-> leaf.c, ok |-> leaf.ok,
                 val |-> IF leaf.ok THEN <<leaf.val>> ELSE <<>>]
      [] depth > PROOF_DEPTH ->
            [m |-> m, c |-> c, ok |-> FALSE, val |-> <<>>]
      [] depth < PROOF_DEPTH ->
            LET bit == AddrBit(address, (ADDRESS_BITS - 1) - depth)
                local == IF bit THEN parent * 2 + 1 ELSE parent * 2
                sibling == IF bit THEN parent * 2 ELSE parent * 2 + 1
                args == <<local, depth + 1>>
                proof == traverse_branch(m, c, args[1], address, args[2])
                sibling_node == merkleize_subtree(proof.m, proof.c, sibling)
            IN  IF proof.ok
                THEN IF sibling_node.ok
                     THEN [m |-> sibling_node.m, c |-> sibling_node.c, ok |-> TRUE,
                           val |-> Append(proof.val, sibling_node.val)]
                     ELSE [m |-> sibling_node.m, c |-> sibling_node.c, ok |-> FALSE,
                           val |-> <<>>]
                ELSE proof

\* Memory::merkle_proof
merkle_proof(m, c, address) == traverse_branch(m, c, 1, address, 0)

Min(a, b) == IF a < b THEN a ELSE b

\* Memory::set_memory_range with a slice as the reader (Read for &[u8] fills
\* the buffer as far as the slice reaches): [m, c, ok]
RECURSIVE set_memory_range(_, _, _, _)
set_memory_range(m, c, address, data) ==
    LET page_index == PageIndexOf(address)
        page_address == PageAddrOf(address)
        l == page_lookup(m, page_index)
        s == IF l.page # NO_PAGE
             THEN [m |-> l.m, c |-> c, page |-> l.page]
             ELSE alloc_page(l.m, c, page_index)
        n == Min(PAGE_SIZE - page_address, Len(data))
        page == invalidate_full(s.c[s.page])
        c2 == [s.c EXCEPT ![s.page] =
                  [page EXCEPT !.data = CopyFromSlice(@, page_address, SubSeq(data, 1, n))]]
    IN  IF n = 0
        THEN [m |-> s.m, c |-> c2, ok |-> TRUE]
        ELSE set_memory_range(s.m, c2, Add32(address, U32(n)), SubSeq(data, n + 1, Len(data)))

\* hex::encode of a page: two digits per byte, high nibble first
HexEncode(data) ==
    [i \in 1..(2 * PAGE_SIZE) |->
        IF i % 2 = 1 THEN data[(i - 1) \div 2] \div 16 ELSE data[(i - 1) \div 2] % 16]

\* hex::decode into [u8; PAGE_SIZE]
HexDecode(hex) == [i \in 0..(PAGE_SIZE - 1) |-> hex[2 * i + 1] * 16 + hex[2 * i + 2]]

\* the page indices of `pages` in ascending order (sort_by index)
RECURSIVE SortedIndices(_)
SortedIndices(S) ==
    IF S = {} THEN <<>>
    ELSE LET lo == CHOOSE x \in S : \A y \in S : x <= y
         IN  <<lo>> \o SortedIndices(S \ {lo})

\* impl Serialize for Memory: the page entries, sorted by index, data in hex
Serialize(m, c) ==
    LET idx == SortedIndices(DOMAIN m.pages)
    IN  [k \in 1..Len(idx) |-> [index |-> idx[k], data |-> HexEncode(c[m.pages[idx[k]]].data)]]

\* impl Deserialize for Memory: [m, c, ok]; the pages of the copy are new cells
RECURSIVE DeserializeFrom(_, _, _, _)
DeserializeFrom(m, c, entries, i) ==
    IF i > Len(entries)
    THEN [m |-> m, c |-> c, ok |-> TRUE]
    ELSE IF entries[i].index \in DOMAIN m.pages
    THEN [m |-> m, c |-> c, ok |-> FALSE]
    ELSE LET a == alloc_page(m, c, entries[i].index)
             page == [a.c[a.page] EXCEPT !.data = HexDecode(entries[i].data)]
             c2 == [a.c EXCEPT ![a.page] = invalidate_full(page)]
         IN  DeserializeFrom(a.m, c2, entries, i + 1)

Deserialize(c, entries) == DeserializeFrom(DefaultMemory, c, entries, 1)

---------------------------------------------------------------------------
(* state.rs, mips/instrumented.rs, mips/mips_vm.rs                          *)
(* A machine vm is the record [s, m, c, i]: the State scalars, State.memory, *)
(* the page cells, and the other fields of InstrumentedState.                *)

\* State::default()
DefaultState ==
    [preimage_key    |-> ZeroBlock,
     preimage_offset |-> U32(0),
     pc              |-> U32(0),
     next_pc         |-> U32(0),
     lo              |-> U32(0),
     hi              |-> U32(0),
     heap            |-> U32(0),
     exit_code       |-> 0,
     exited          |-> FALSE,
     step            |-> 0,
     registers       |-> [r \in 0..31 |-> U32(0)],
     last_hint       |-> <<>>]

\* [0u8; 28 * 32], as 28 blocks of 32 bytes
ZeroProof == [k \in 1..(PROOF_DEPTH + 1) |-> ZeroBlock]

\* InstrumentedState::new, without the writers; of preimage_oracle, whether
\* its calls return Ok
InstrumentedNew ==
    [oracle_ok            |-> TRUE,
     last_mem_access      |-> U32(0),
     mem_proof_enabled    |-> FALSE,
     mem_proof            |-> ZeroProof,
     last_preimage        |-> <<>>,
     last_preimage_key    |-> ZeroBlock,
     last_preimage_offset |-> U32(0)]

\* what a step has done so far to the world outside the State: whether it
\* panicked, and the events in call order: <<"fetch", pc>>, <<"load", a>>,
\* <<"store", a>>, <<"get", key>> (PreimageOracle::get), <<"hint", h>>
\* (PreimageOracle::hint), <<"std_out", bytes>>, <<"std_err", bytes>>
NoEffects == [panic |-> FALSE, events |-> <<>>]

\* !0u32
MAX32 == <<HALF - 1, HALF - 1>>

\* State::encode_witness: [m, c, ok, val]; the fields of the StateWitness in
\* the order of their byte ranges
encode_witness(st, m, c) ==
    Bind({[m |-> root.m, c |-> root.c, ok |-> root.ok,
           val |-> [memory_root     |-> root.val,
                    preimage_key    |-> st.preimage_key,
                    preimage_offset |-> st.preimage_offset,
                    pc              |-> st.pc,
                    next_pc         |-> st.next_pc,
                    lo              |-> st.lo,
                    hi              |-> st.hi,
                    heap            |-> st.heap,
                    exit_code       |-> st.exit_code,
                    exited          |-> st.exited,
                    step            |-> st.step,
                    registers       |-> st.registers]]
          : root \in {merkle_root(m, c)}})

\* STATE_WITNESS_SIZE (witness.rs)
STATE_WITNESS_SIZE == 226

\* the 32 bytes of a digest: byte i of digest d is the pair <<d, i>>
DigestBytes(d) == [i \in 1..(2 ^ LEAF_BITS) |-> <<d, i>>]

\* utils::keccak256 of a byte string, as an ideal hash
keccak256(input) == <<"K", input>>

\* the [u8; 226] that State::encode_witness fills from the fields: root,
\* preimage_key, preimage_offset, pc, next_pc, lo, hi, heap (big-endian),
\* exit_code, exited as u8, step (8 bytes big-endian; the step counts of the
\* model stay below 2 ^ 31), registers
StateWitnessBytes(w) ==
    DigestBytes(w.memory_root)
        \o w.preimage_key
        \o to_be_bytes(w.preimage_offset)
        \o to_be_bytes(w.pc)
        \o to_be_bytes(w.next_pc)
        \o to_be_bytes(w.lo)
        \o to_be_bytes(w.hi)
        \o to_be_bytes(w.heap)
        \o <<w.exit_code>>
        \o <<IF w.exited THEN 1 ELSE 0>>
        \o [i \in 1..8 |-> IF i <= 4 THEN 0 ELSE (w.step \div (256 ^ (8 - i))) % 256]
        \o [k \in 1..128 |-> to_be_bytes(w.registers[(k - 1) \div 4])[((k - 1) % 4) + 1]]

\* State::vm_status as u8: Valid = 0, Invalid = 1, Panic = 2, Unfinished = 3
vm_status(exited, exit_code) ==
    IF ~ exited THEN 3
    ELSE CASE exit_code = 0 -> 0
           [] exit_code = 1 -> 1
           [] exit_code \notin {0, 1} -> 2

\* mutant: the status is read four bytes early, from the last byte of heap
\* and exit_code
state_hash_WrongOffset(witness) ==
    LET hash == DigestBytes(keccak256(witness))
        offset == 32 * 2 + 4 * 6 - 1
        exit_code == witness[offset + 1]
        exited == witness[offset + 2] = 1
    IN  [hash EXCEPT ![1] = vm_status(exited, exit_code)]

\* StateWitnessHasher::state_hash for StateWitness; Rust's self[offset] is
\* witness[offset + 1] here
state_hash(witness) ==
    LET hash == DigestBytes(keccak256(witness))
        offset == 32 * 2 + 4 * 6
        exit_code == witness[offset + 1]
        exited == witness[offset + 2] = 1
    IN  [hash EXCEPT ![1] = vm_status(exited, exit_code)]

\* sign_extend(data, index); index is used as a shift amount only
sign_extend(data, index) ==
    LET is_signed == Shr32(data, index - 1) # U32(0)
        signed == Shl32(Sub32(Shl32(U32(1), 32 - index), U32(1)), index)
        mask == Sub32(Shl32(U32(1), index), U32(1))
    IN  IF is_signed THEN Or32(And32(data, mask), signed) ELSE And32(data, mask)

\* the fields of an instruction word
Opcode(instruction) == Hi(instruction) \div 1024

RsReg(instruction) == (Hi(instruction) \div 32) % 32

RtReg(instruction) == Hi(instruction) % 32

RdReg(instruction) == (Lo(instruction) \div 2048) % 32

Shamt(instruction) == (Lo(instruction) \div 64) % 32

Fun(instruction) == Lo(instruction) % 64

\* instruction & 0xFFFF
Imm16(instruction) == <<0, Lo(instruction)>>

\* one more event of the step: what the step did to its memory, its oracle,
\* its writers, its registers ("reg", index) and its pc/next_pc pair ("pc",
\* new pc), in the order of the statements
Event(vm, kind, arg) == [vm EXCEPT !.fx.events = Append(@, <<kind, arg>>)]

\* mutant: the first access of a step is refused as well
track_mem_access_NoSentinel(vm, effective_address) ==
    IF vm.i.mem_proof_enabled /\ vm.i.last_mem_access # effective_address
    THEN [vm |-> vm, ok |-> FALSE]
    ELSE [vm |-> vm, ok |-> TRUE]

\* InstrumentedState::track_mem_access: [vm, ok]
track_mem_access(vm, effective_address) ==
    IF vm.i.mem_proof_enabled /\ vm.i.last_mem_access # effective_address
    THEN IF vm.i.last_mem_access # MAX32
         THEN [vm |-> vm, ok |-> FALSE]
         ELSE Bind({IF ~ proof.ok
                    THEN [vm |-> [vm EXCEPT !.i.last_mem_access = effective_address,
                                            !.m = proof.m, !.c = proof.c],
                          ok |-> FALSE]
                    ELSE [vm |-> [vm EXCEPT !.i.last_mem_access = effective_address,
                                            !.i.mem_proof = proof.val,
                                            !.m = proof.m, !.c = proof.c],
                          ok |-> TRUE]
                   : proof \in {merkle_proof(vm.m, vm.c, effective_address)}})
    ELSE [vm |-> vm, ok |-> TRUE]

\* mutant: the offset is added to the pc after `pc = next_pc`; the branch is
\* always taken
handle_branch_FromNewPc(vm, opcode, instruction, rt_reg, rs) ==
    IF vm.s.next_pc # Add32(vm.s.pc, U32(4))
    THEN [vm |-> vm, ok |-> FALSE]
    ELSE [vm |-> [vm EXCEPT
                    !.s.pc = vm.s.next_pc,
                    !.s.next_pc = Add32(Add32(vm.s.next_pc, U32(4)),
                                        Shl32(sign_extend(Imm16(instruction), 16), 2))],
          ok |-> TRUE]

\* InstrumentedState::handle_branch: [vm, ok]
handle_branch(vm, opcode, instruction, rt_reg, rs) ==
    IF vm.s.next_pc # Add32(vm.s.pc, U32(4))
    THEN [vm |-> vm, ok |-> FALSE]
    ELSE LET rt == vm.s.registers[rt_reg]
             rtv == RtReg(instruction)
             should_branch ==
                 CASE opcode \in {4, 5} -> (rs = rt /\ opcode = 4) \/ (rs # rt /\ opcode = 5)
                   [] opcode = 6 -> Negative(rs) \/ rs = U32(0)
                   [] opcode = 7 -> ~ Negative(rs) /\ rs # U32(0)
                   [] opcode = 1 -> IF rtv = 0 THEN Negative(rs)
                                    ELSE IF rtv = 1 THEN ~ Negative(rs)
                                    ELSE FALSE
                   [] OTHER -> FALSE
             prev_pc == vm.s.pc
         IN  [vm |-> [vm EXCEPT
                        !.s.pc = vm.s.next_pc,
                        !.s.next_pc =
                            IF should_branch
                            THEN Add32(Add32(prev_pc, U32(4)),
                                       Shl32(sign_extend(Imm16(instruction), 16), 2))
                            ELSE Add32(vm.s.next_pc, U32(4)),
                        !.fx.events = Append(@, <<"pc", vm.s.next_pc>>)],
              ok |-> TRUE]

\* mutant: the delay-slot check is missing
handle_jump_NoSlotCheck(vm, link_reg, dest) ==
    [vm |-> [vm EXCEPT
               !.s.pc = vm.s.next_pc,
               !.s.next_pc = dest,
               !.s.registers = IF link_reg # 0
                               THEN [@ EXCEPT ![link_reg] = Add32(vm.s.pc, U32(8))]
                               ELSE @],
     ok |-> TRUE]

\* InstrumentedState::handle_jump: [vm, ok]
handle_jump(vm, link_reg, dest) ==
    IF vm.s.next_pc # Add32(vm.s.pc, U32(4))
    THEN [vm |-> vm, ok |-> FALSE]
    ELSE LET prev_pc == vm.s.pc
         IN  [vm |-> [vm EXCEPT
                        !.s.pc = vm.s.next_pc,
                        !.s.next_pc = dest,
                        !.s.registers = IF link_reg # 0
                                        THEN [@ EXCEPT ![link_reg] = Add32(prev_pc, U32(8))]
                                        ELSE @,
                        !.fx.events = @ \o <<<<"pc", vm.s.next_pc>>>>
                                        \o (IF link_reg # 0 THEN <<<<"reg", link_reg>>>>
                                            ELSE <<>>)],
              ok |-> TRUE]

\* mutant: next_pc is left where it was
handle_rd_KeepNextPc(vm, store_reg, val, conditional) ==
    IF store_reg >= 32
    THEN [vm |-> vm, ok |-> FALSE]
    ELSE [vm |-> [vm EXCEPT
                    !.s.registers = IF store_reg # 0 /\ conditional
                                    THEN [@ EXCEPT ![store_reg] = val]
                                    ELSE @,
                    !.s.pc = vm.s.next_pc],
          ok |-> TRUE]

\* mutant: register 0 is written like any other
handle_rd_WritesZero(vm, store_reg, val, conditional) ==
    IF store_reg >= 32
    THEN [vm |-> vm, ok |-> FALSE]
    ELSE [vm |-> [vm EXCEPT
                    !.s.registers = IF conditional
                                    THEN [@ EXCEPT ![store_reg] = val]
                                    ELSE @,
                    !.s.pc = vm.s.next_pc,
                    !.s.next_pc = Add32(vm.s.next_pc, U32(4))],
          ok |-> TRUE]

\* InstrumentedState::handle_rd: [vm, ok]
handle_rd(vm, store_reg, val, conditional) ==
    IF store_reg >= 32
    THEN [vm |-> vm, ok |-> FALSE]
    ELSE [vm |-> [vm EXCEPT
                    !.s.registers = IF store_reg # 0 /\ conditional
                                    THEN [@ EXCEPT ![store_reg] = val]
                                    ELSE @,
                    !.s.pc = vm.s.next_pc,
                    !.s.next_pc = Add32(vm.s.next_pc, U32(4)),
                    !.fx.events = (IF store_reg # 0 /\ conditional
                                   THEN Append(@, <<"reg", store_reg>>) ELSE @)
                                  \o <<<<"pc", vm.s.next_pc>>>>],
          ok |-> TRUE]

\* the numbers of Syscall (types.rs) and Syscall::try_from
SYS_MMAP == U32(4090)

SYS_BRK == U32(4045)

SYS_CLONE == U32(4120)

SYS_EXIT_GROUP == U32(4246)

SYS_READ == U32(4003)

SYS_WRITE == U32(4004)

SYS_FCNTL == U32(4055)

\* MIPS_EBADF and MIPS_EINVAL (instrumented.rs)
MIPS_EBADF == U32(9)

MIPS_EINVAL == U32(22)

\* `x as usize` of a u32; the values converted in the model stay below 2 ^ 31
AsNat(x) == Hi(x) * HALF + Lo(x)

\* data.len().to_be_bytes() of a usize; the lengths of the model stay below 256
LenToBeBytes(n) == <<0, 0, 0, 0, 0, 0, 0, n>>

\* PreimageOracle::get: the preimage the oracle holds for a key; every key
\* has one, of three bytes, the second being the last byte of the key
Oracle(key) == <<171, key[2 ^ LEAF_BITS], 205>>

\* the aligned words that hold the bytes address .. address + count - 1
WordsOf(address, count) ==
    IF count = 0 THEN <<>>
    ELSE LET first == And32(address, <<HALF - 1, HALF - 4>>)
             words == ((Lo(address) % 4) + count + 3) \div 4
         IN  [k \in 1..words |-> Add32(first, U32(4 * (k - 1)))]

\* InstrumentedState::read_preimage: [vm, ok, data, data_len]; an error of
\* the oracle is returned before anything is assigned; slicing last_preimage
\* from an offset beyond its length panics
read_preimage(vm, key, offset) ==
    LET fetched == key # vm.i.last_preimage_key
        data == Oracle(key)
        v1 == IF fetched
              THEN [Event(vm, "get", key) EXCEPT
                       !.i.last_preimage_key = key,
                       !.i.last_preimage = LenToBeBytes(Len(data)) \o data]
              ELSE vm
        v2 == [v1 EXCEPT !.i.last_preimage_offset = offset]
        len == Len(v2.i.last_preimage)
    IN  IF fetched /\ ~ vm.i.oracle_ok
        THEN [vm |-> Event(vm, "get", key), ok |-> FALSE, data |-> <<>>, data_len |-> 0]
        ELSE IF Lt32(U32(len), offset)
        THEN [vm |-> [v2 EXCEPT !.fx.panic = TRUE], ok |-> FALSE,
              data |-> <<>>, data_len |-> 0]
        ELSE LET data_len == Min(2 ^ LEAF_BITS, len - AsNat(offset))
             IN  [vm |-> v2, ok |-> TRUE,
                  data |-> [i \in 1..(2 ^ LEAF_BITS) |->
                               IF i <= data_len THEN v2.i.last_preimage[AsNat(offset) + i]
                               ELSE 0],
                  data_len |-> data_len]

\* impl Read for MemoryReader, called until it returns 0 (io::copy,
\* read_to_end): [m, bytes]; every call reads up to the end of one page
RECURSIVE MemoryReaderRead(_, _, _, _)
MemoryReaderRead(m, c, address, count) ==
    IF count = 0
    THEN [m |-> m, bytes |-> <<>>]
    ELSE LET end_address == Add32(address, U32(count))
             page_index == PageIndexOf(address)
             start == PageAddrOf(address)
             end == IF page_index = PageIndexOf(end_address)
                    THEN PageAddrOf(end_address) ELSE PAGE_SIZE
             n == end - start
             l == page_lookup(m, page_index)
             chunk == IF l.page # NO_PAGE
                      THEN [i \in 1..n |-> c[l.page].data[start + i - 1]]
                      ELSE [i \in 1..n |-> 0]
             rest == MemoryReaderRead(l.m, c, Add32(address, U32(n)), count - n)
         IN  [m |-> rest.m, bytes |-> chunk \o rest.bytes]

\* MemoryReader::new(memory, a1, a2) read to its end: [vm, bytes]
ReadRange(vm, a1, a2) ==
    Bind({[vm    |-> [vm EXCEPT !.m = r.m,
                         !.fx.events = @ \o [k \in 1..Len(WordsOf(a1, AsNat(a2))) |->
                                                <<"load", WordsOf(a1, AsNat(a2))[k]>>]],
           bytes |-> r.bytes]
          : r \in {MemoryReaderRead(vm.m, vm.c, a1, AsNat(a2))}})

\* the `while self.state.last_hint.len() >= 4` loop of Fd::HintWrite:
\* [last_hint, hints, panic]; the slice 4..4 + hint_len of a shorter buffer
\* panics
RECURSIVE HintLoop(_, _)
HintLoop(last_hint, hints) ==
    IF Len(last_hint) >= 4
    THEN LET hint_len == from_be_bytes(SubSeq(last_hint, 1, 4))
         IN  IF ~ Lt32(hint_len, U32(Len(last_hint) - 4))
             THEN IF Lt32(U32(Len(last_hint) - 4), hint_len)
                  THEN [last_hint |-> last_hint, hints |-> hints, panic |-> TRUE]
                  ELSE HintLoop(SubSeq(last_hint, 5 + AsNat(hint_len), Len(last_hint)),
                                Append(hints, SubSeq(last_hint, 5, 4 + AsNat(hint_len))))
             ELSE [last_hint |-> last_hint, hints |-> hints, panic |-> FALSE]
    ELSE [last_hint |-> last_hint, hints |-> hints, panic |-> FALSE]

\* the arm Syscall::Read of handle_syscall: [vm, ok, v0, v1]
syscall_read(vm, a0, a1, a2) ==
    LET fd == Lo(a0) % 256
        effective_address == And32(a1, <<HALF - 1, HALF - 4>>)
        alignment == Lo(a1) % 4
        space == 4 - alignment
    IN  CASE fd = 0 -> [vm |-> vm, ok |-> TRUE, v0 |-> U32(0), v1 |-> U32(0)]
          [] fd = 3 -> [vm |-> vm, ok |-> TRUE, v0 |-> a2, v1 |-> U32(0)]
          [] fd = 5 ->
             Bind({
               IF ~ t.ok THEN [vm |-> t.vm, ok |-> FALSE, v0 |-> U32(0), v1 |-> U32(0)] ELSE
               Bind({
                 IF ~ ld.ok
                 THEN [vm |-> [t.vm EXCEPT !.m = ld.m], ok |-> FALSE,
                       v0 |-> U32(0), v1 |-> U32(0)]
                 ELSE
                 Bind({
                   IF ~ p.ok THEN [vm |-> p.vm, ok |-> FALSE, v0 |-> U32(0), v1 |-> U32(0)]
                   ELSE
                   LET len1 == Min(space, p.data_len)
                       data_len == IF Lt32(a2, U32(len1)) THEN AsNat(a2) ELSE len1
                       memory_bytes == to_be_bytes(ld.val)
                       out_mem == [i \in 1..4 |->
                                      IF i > alignment /\ i <= alignment + data_len
                                      THEN p.data[i - alignment] ELSE memory_bytes[i]]
                   IN  Bind({
                         IF ~ w.ok
                         THEN [vm |-> [p.vm EXCEPT !.m = w.m, !.c = w.c], ok |-> FALSE,
                               v0 |-> U32(0), v1 |-> U32(0)]
                         ELSE [vm |-> [Event(p.vm, "store", effective_address) EXCEPT
                                          !.m = w.m, !.c = w.c,
                                          !.s.preimage_offset = Add32(@, U32(data_len))],
                               ok |-> TRUE, v0 |-> U32(data_len), v1 |-> U32(0)]
                       : w \in {set_memory(p.vm.m, p.vm.c, effective_address,
                                           from_be_bytes(out_mem))}})
                 : p \in {read_preimage(Event([t.vm EXCEPT !.m = ld.m],
                                              "load", effective_address),
                                        t.vm.s.preimage_key, t.vm.s.preimage_offset)}})
               : ld \in {get_memory(t.vm.m, t.vm.c, effective_address)}})
             : t \in {track_mem_access(vm, effective_address)}})
          [] fd \notin {0, 3, 5} ->
             [vm |-> vm, ok |-> TRUE, v0 |-> MAX32, v1 |-> MIPS_EBADF]

\* mutant: the bytes are written at the head of the key, which is not
\* shifted
shift_key_Head(key_copy, memory_bytes, alignment, a2) ==
    [i \in 1..(2 ^ LEAF_BITS) |->
        IF i <= a2 THEN memory_bytes[alignment + i] ELSE key_copy[i]]

\* the two copies of Fd::PreimageWrite: key_copy[a2..] to the head of the
\* key, then a2 bytes of the word from `alignment` on to its tail
shift_key(key_copy, memory_bytes, alignment, a2) ==
    [i \in 1..(2 ^ LEAF_BITS) |->
        IF i <= 2 ^ LEAF_BITS - a2 THEN key_copy[i + a2]
        ELSE memory_bytes[alignment + i - (2 ^ LEAF_BITS - a2)]]

\* the arm Syscall::Write of handle_syscall: [vm, ok, v0, v1]
syscall_write(vm, a0, a1, a2_in) ==
    LET fd == Lo(a0) % 256
        effective_address == And32(a1, <<HALF - 1, HALF - 4>>)
        alignment == Lo(a1) % 4
        space == 4 - alignment
    IN  CASE fd \in {1, 2} ->
             Bind({[vm |-> Event(r.vm, IF fd = 1 THEN "std_out" ELSE "std_err", r.bytes),
                    ok |-> TRUE, v0 |-> a2_in, v1 |-> U32(0)]
                   : r \in {ReadRange(vm, a1, a2_in)}})
          [] fd = 4 ->
             Bind({
               Bind({
                 IF ~ vm.i.oracle_ok /\ h.hints # <<>>
                 THEN [vm |-> [r.vm EXCEPT
                                 !.s.last_hint = r.vm.s.last_hint \o r.bytes,
                                 !.fx.events = Append(@, <<"hint", h.hints[1]>>)],
                       ok |-> FALSE, v0 |-> U32(0), v1 |-> U32(0)]
                 ELSE
                 [vm |-> [r.vm EXCEPT
                             !.s.last_hint = h.last_hint,
                             !.fx.panic = h.panic,
                             !.fx.events = @ \o [k \in 1..Len(h.hints) |->
                                                    <<"hint", h.hints[k]>>]],
                  ok |-> ~ h.panic, v0 |-> a2_in, v1 |-> U32(0)]
               : h \in {HintLoop(r.vm.s.last_hint \o r.bytes, <<>>)}})
             : r \in {ReadRange(vm, a1, a2_in)}})
          [] fd = 6 ->
             Bind({
               IF ~ t.ok THEN [vm |-> t.vm, ok |-> FALSE, v0 |-> U32(0), v1 |-> U32(0)] ELSE
               Bind({
                 IF ~ ld.ok
                 THEN [vm |-> [t.vm EXCEPT !.m = ld.m], ok |-> FALSE,
                       v0 |-> U32(0), v1 |-> U32(0)]
                 ELSE
                 LET a2 == IF Lt32(U32(space), a2_in) THEN space ELSE AsNat(a2_in)
                     key_copy == t.vm.s.preimage_key
                     memory_bytes == to_be_bytes(ld.val)
                     key == shift_key(key_copy, memory_bytes, alignment, a2)
                 IN  [vm |-> [Event(t.vm, "load", effective_address) EXCEPT
                                 !.m = ld.m,
                                 !.s.preimage_key = key,
                                 !.s.preimage_offset = U32(0)],
                      ok |-> TRUE, v0 |-> U32(a2), v1 |-> U32(0)]
               : ld \in {get_memory(t.vm.m, t.vm.c, effective_address)}})
             : t \in {track_mem_access(vm, effective_address)}})
          [] fd \notin {1, 2, 4, 6} ->
             [vm |-> vm, ok |-> TRUE, v0 |-> MAX32, v1 |-> MIPS_EBADF]

\* the arm Syscall::Fcntl of handle_syscall: [vm, ok, v0, v1]
syscall_fcntl(vm, a0, a1) ==
    LET fd == Lo(a0) % 256
    IN  IF a1 = U32(3)
        THEN CASE fd \in {0, 5, 3} -> [vm |-> vm, ok |-> TRUE, v0 |-> U32(0), v1 |-> U32(0)]
               [] fd \in {1, 2, 6, 4} -> [vm |-> vm, ok |-> TRUE, v0 |-> U32(1), v1 |-> U32(0)]
               [] fd > 6 -> [vm |-> vm, ok |-> TRUE, v0 |-> MAX32, v1 |-> MIPS_EBADF]
        ELSE [vm |-> vm, ok |-> TRUE, v0 |-> MAX32, v1 |-> MIPS_EINVAL]

\* the arm Syscall::Mmap of handle_syscall: [vm, ok, v0, v1]
syscall_mmap(vm, a0, a1) ==
    LET masked_size == And32(a1, U32(PAGE_ADDRESS_MASK))
        sz == IF masked_size # U32(0)
              THEN Add32(a1, Sub32(U32(PAGE_SIZE), masked_size))
              ELSE a1
    IN  IF a0 = U32(0)
        THEN [vm |-> [vm EXCEPT !.s.heap = Add32(@, sz)], ok |-> TRUE,
              v0 |-> vm.s.heap, v1 |-> U32(0)]
        ELSE [vm |-> vm, ok |-> TRUE, v0 |-> a0, v1 |-> U32(0)]

\* mutant: exit_group falls through to the epilogue of the other syscalls
syscall_exit_group_Advances(vm, a0) ==
    [vm |-> [vm EXCEPT !.s.exited = TRUE,
                       !.s.exit_code = Lo(a0) % 256,
                       !.s.registers = [@ EXCEPT ![2] = U32(0), ![7] = U32(0)],
                       !.s.pc = vm.s.next_pc,
                       !.s.next_pc = Add32(vm.s.next_pc, U32(4))],
     ok |-> TRUE]

\* the arm Syscall::ExitGroup of handle_syscall, which returns before the
\* epilogue: [vm, ok]
syscall_exit_group(vm, a0) ==
    [vm |-> [vm EXCEPT !.s.exited = TRUE, !.s.exit_code = Lo(a0) % 256],
     ok |-> TRUE]

\* mutant: v0 starts as the syscall number
syscall_none_KeepsNumber(vm) ==
    [vm |-> vm, ok |-> TRUE, v0 |-> vm.s.registers[2], v1 |-> U32(0)]

\* `let mut v0 = 0; let mut v1 = 0;` when Syscall::try_from fails and no
\* arm runs: [vm, ok, v0, v1]
syscall_none(vm) == [vm |-> vm, ok |-> TRUE, v0 |-> U32(0), v1 |-> U32(0)]

\* mutant: the registers and the pc are written before the syscall is
\* dispatched, v0 and v1 being patched in afterwards
handle_syscall_MutatesFirst(vm) ==
    LET a0 == vm.s.registers[4]
        a1 == vm.s.registers[5]
        a2 == vm.s.registers[6]
        number == vm.s.registers[2]
        early == [vm EXCEPT !.fx.events = @ \o <<<<"reg", 2>>, <<"reg", 7>>,
                                                 <<"pc", vm.s.next_pc>>>>]
    IN  IF number = SYS_EXIT_GROUP
        THEN syscall_exit_group(vm, a0)
        ELSE Bind({
               IF ~ out.ok THEN [vm |-> out.vm, ok |-> FALSE]
               ELSE [vm |-> [out.vm EXCEPT
                               !.s.registers = [@ EXCEPT ![2] = out.v0, ![7] = out.v1],
                               !.s.pc = out.vm.s.next_pc,
                               !.s.next_pc = Add32(out.vm.s.next_pc, U32(4))],
                     ok |-> TRUE]
             : out \in {CASE number = SYS_MMAP -> syscall_mmap(early, a0, a1)
                          [] number = SYS_BRK ->
                                [vm |-> early, ok |-> TRUE, v0 |-> <<16384, 0>>, v1 |-> U32(0)]
                          [] number = SYS_CLONE ->
                                [vm |-> early, ok |-> TRUE, v0 |-> U32(1), v1 |-> U32(0)]
                          [] number = SYS_READ -> syscall_read(early, a0, a1, a2)
                          [] number = SYS_WRITE -> syscall_write(early, a0, a1, a2)
                          [] number = SYS_FCNTL -> syscall_fcntl(early, a0, a1)
                          [] number \notin {SYS_MMAP, SYS_BRK, SYS_CLONE, SYS_EXIT_GROUP,
                                            SYS_READ, SYS_WRITE, SYS_FCNTL} ->
                                syscall_none(early)}})

\* InstrumentedState::handle_syscall: [vm, ok]
handle_syscall(vm) ==
    LET a0 == vm.s.registers[4]
        a1 == vm.s.registers[5]
        a2 == vm.s.registers[6]
        number == vm.s.registers[2]
    IN  IF number = SYS_EXIT_GROUP
        THEN syscall_exit_group(vm, a0)
        ELSE Bind({
               IF ~ out.ok THEN [vm |-> out.vm, ok |-> FALSE]
               ELSE [vm |-> [out.vm EXCEPT
                               !.s.registers = [@ EXCEPT ![2] = out.v0, ![7] = out.v1],
                               !.s.pc = out.vm.s.next_pc,
                               !.s.next_pc = Add32(out.vm.s.next_pc, U32(4)),
                               !.fx.events = @ \o <<<<"reg", 2>>, <<"reg", 7>>,
                                                    <<"pc", out.vm.s.next_pc>>>>],
                     ok |-> TRUE]
             : out \in {CASE number = SYS_MMAP -> syscall_mmap(vm, a0, a1)
                          [] number = SYS_BRK ->
                                [vm |-> vm, ok |-> TRUE, v0 |-> <<16384, 0>>, v1 |-> U32(0)]
                          [] number = SYS_CLONE ->
                                [vm |-> vm, ok |-> TRUE, v0 |-> U32(1), v1 |-> U32(0)]
                          [] number = SYS_READ -> syscall_read(vm, a0, a1, a2)
                          [] number = SYS_WRITE -> syscall_write(vm, a0, a1, a2)
                          [] number = SYS_FCNTL -> syscall_fcntl(vm, a0, a1)
                          [] number \notin {SYS_MMAP, SYS_BRK, SYS_CLONE, SYS_EXIT_GROUP,
                                            SYS_READ, SYS_WRITE, SYS_FCNTL} ->
                                syscall_none(vm)}})

\* InstrumentedState::handle_hi_lo: [vm, ok]; the arms modelled are mfhi,
\* mthi, mflo, mtlo and the function codes that match no arm
handle_hi_lo(vm, fun, rs, rt, store_reg) ==
    LET out == CASE fun = 16 -> [val |-> vm.s.hi, hi |-> vm.s.hi, lo |-> vm.s.lo]
                 [] fun = 17 -> [val |-> U32(0), hi |-> rs, lo |-> vm.s.lo]
                 [] fun = 18 -> [val |-> vm.s.lo, hi |-> vm.s.hi, lo |-> vm.s.lo]
                 [] fun = 19 -> [val |-> U32(0), hi |-> vm.s.hi, lo |-> rs]
                 [] fun \notin 16..19 /\ fun \notin 24..27 ->
                        [val |-> U32(0), hi |-> vm.s.hi, lo |-> vm.s.lo]
    IN  [vm |-> [vm EXCEPT
                    !.s.hi = out.hi,
                    !.s.lo = out.lo,
                    !.s.registers = IF store_reg # 0
                                    THEN [@ EXCEPT ![store_reg] = out.val]
                                    ELSE @,
                    !.s.pc = vm.s.next_pc,
                    !.s.next_pc = Add32(vm.s.next_pc, U32(4)),
                    !.fx.events = (IF store_reg # 0
                                   THEN Append(@, <<"reg", store_reg>>) ELSE @)
                                  \o <<<<"pc", vm.s.next_pc>>>>],
         ok |-> TRUE]

\* InstrumentedState::execute: [ok, val]; of the opcodes that are neither
\* R-type nor ALU-immediate, the arms modelled are lui, lw, sw, ll and sc
execute(instruction, rs, rt, mem) ==
    LET opcode == Opcode(instruction)
        fun == CASE opcode = 8 -> 32
                 [] opcode = 9 -> 33
                 [] opcode = 10 -> 42
                 [] opcode = 11 -> 43
                 [] opcode = 12 -> 36
                 [] opcode = 13 -> 37
                 [] opcode = 14 -> 38
                 [] OTHER -> Fun(instruction)
        shamt == Shamt(instruction)
    IN  IF opcode = 0 \/ opcode \in 8..14
        THEN CASE fun = 0 -> [ok |-> TRUE, val |-> Shl32(rt, shamt)]
               [] fun = 2 -> [ok |-> TRUE, val |-> Shr32(rt, shamt)]
               [] fun = 3 -> [ok |-> TRUE, val |-> sign_extend(Shr32(rt, shamt), 32 - shamt)]
               [] fun = 4 -> [ok |-> TRUE, val |-> Shl32(rt, Lo(rs) % 32)]
               [] fun = 6 -> [ok |-> TRUE, val |-> Shr32(rt, Lo(rs) % 32)]
               [] fun = 7 -> [ok |-> TRUE,
                              val |-> sign_extend(Shr32(rt, Lo(rs)), 32 - Lo(rs))]
               [] fun \in (8..12) \cup (15..19) \cup (24..27) -> [ok |-> TRUE, val |-> rs]
               [] fun \in {32, 33} -> [ok |-> TRUE, val |-> Add32(rs, rt)]
               [] fun \in {34, 35} -> [ok |-> TRUE, val |-> Sub32(rs, rt)]
               [] fun = 36 -> [ok |-> TRUE, val |-> And32(rs, rt)]
               [] fun = 37 -> [ok |-> TRUE, val |-> Or32(rs, rt)]
               [] fun = 38 -> [ok |-> TRUE, val |-> Xor32(rs, rt)]
               [] fun = 39 -> [ok |-> TRUE, val |-> Not32(Or32(rs, rt))]
               [] fun = 42 -> [ok |-> TRUE, val |-> IF SLt32(rs, rt) THEN U32(1) ELSE U32(0)]
               [] fun = 43 -> [ok |-> TRUE, val |-> IF Lt32(rs, rt) THEN U32(1) ELSE U32(0)]
               [] OTHER -> [ok |-> FALSE, val |-> U32(0)]
        ELSE CASE opcode = 15 -> [ok |-> TRUE, val |-> Shl32(rt, 16)]
               [] opcode = 35 -> [ok |-> TRUE, val |-> mem]
               [] opcode = 43 -> [ok |-> TRUE, val |-> rt]
               [] opcode = 48 -> [ok |-> TRUE, val |-> mem]
               [] opcode = 56 -> [ok |-> TRUE, val |-> rt]
               [] opcode \in (1..7) \cup (16..27) \cup (29..31) \cup {39, 44, 45, 47}
                                \cup (49..55) \cup (57..63) ->
                      [ok |-> FALSE, val |-> U32(0)]

\* the part of inner_step after the branch dispatch: memory fetch, ALU,
\* special functions, store and write-back: [vm, ok]
inner_step_alu(vm, instruction, rs_val, rt, rd_reg_in) ==
    LET opcode == Opcode(instruction)
        rt_reg == RtReg(instruction)
        is_mem == opcode >= 32
        rs == IF is_mem THEN Add32(rs_val, sign_extend(Imm16(instruction), 16)) ELSE rs_val
        address == And32(rs, <<HALF - 1, HALF - 4>>)
        is_store == is_mem /\ opcode >= 40 /\ opcode # 48
        store_address == IF is_store THEN address ELSE MAX32
        rd_reg == IF is_store THEN 0 ELSE rd_reg_in
        fun == Fun(instruction)
    IN
    Bind({
      IF ~ t.ok THEN [vm |-> t.vm, ok |-> FALSE] ELSE
      Bind({
        LET v3 == IF is_mem THEN Event([t.vm EXCEPT !.m = ld.m], "load", address)
                  ELSE [t.vm EXCEPT !.m = ld.m]
        IN
        IF ~ ld.ok THEN [vm |-> v3, ok |-> FALSE] ELSE
        Bind({
          IF ~ ex.ok THEN [vm |-> v3, ok |-> FALSE]
          ELSE IF opcode = 0 /\ fun \in {8, 9}
          THEN handle_jump(v3, IF fun = 9 THEN rd_reg ELSE 0, rs)
          ELSE IF opcode = 0 /\ fun = 10 THEN handle_rd(v3, rd_reg, ex.val, rt = U32(0))
          ELSE IF opcode = 0 /\ fun = 11 THEN handle_rd(v3, rd_reg, ex.val, rt # U32(0))
          ELSE IF opcode = 0 /\ fun = 12 THEN handle_syscall(v3)
          ELSE IF opcode = 0 /\ fun \in 16..27 THEN handle_hi_lo(v3, fun, rs, rt, rd_reg)
          ELSE
          LET v4 == IF opcode = 56 /\ rt_reg # 0
                    THEN Event([v3 EXCEPT !.s.registers[rt_reg] = U32(1)],
                               "reg", rt_reg)
                    ELSE v3
          IN
          Bind({
            IF ~ t2.ok THEN [vm |-> t2.vm, ok |-> FALSE] ELSE
            Bind({
              LET v5 == IF store_address # MAX32
                        THEN Event([t2.vm EXCEPT !.m = w.m, !.c = w.c],
                                   "store", store_address)
                        ELSE [t2.vm EXCEPT !.m = w.m, !.c = w.c]
              IN
              IF ~ w.ok THEN [vm |-> v5, ok |-> FALSE]
              ELSE handle_rd(v5, rd_reg, ex.val, TRUE)
            : w \in {IF store_address # MAX32
                     THEN set_memory(t2.vm.m, t2.vm.c, store_address, ex.val)
                     ELSE [m |-> t2.vm.m, c |-> t2.vm.c, ok |-> TRUE]}})
          : t2 \in {IF store_address # MAX32 THEN track_mem_access(v4, store_address)
                    ELSE [vm |-> v4, ok |-> TRUE]}})
        : ex \in {execute(instruction, rs, rt, ld.val)}})
      : ld \in {IF is_mem THEN get_memory(t.vm.m, t.vm.c, address)
                ELSE [m |-> t.vm.m, ok |-> TRUE, val |-> U32(0)]}})
    : t \in {IF is_mem THEN track_mem_access(vm, address) ELSE [vm |-> vm, ok |-> TRUE]}})

\* the part of inner_step after the `exited` check: step counter, fetch,
\* j/jal, register fetch and branch dispatch: [vm, ok]
inner_step_fetch(vm) ==
    Bind({
      LET v1 == [vm EXCEPT !.s.step = @ + 1]
          v2 == Event([v1 EXCEPT !.m = fetch.m], "fetch", vm.s.pc)
          instruction == fetch.val
          opcode == Opcode(instruction)
          target == Or32(And32(v2.s.next_pc, <<61440, 0>>),
                         Shl32(And32(instruction, <<1023, HALF - 1>>), 2))
          rs == v2.s.registers[RsReg(instruction)]
          rt_reg == RtReg(instruction)
          rt == IF opcode \in {0, 28} THEN v2.s.registers[rt_reg]
                ELSE IF opcode < 20
                THEN IF opcode \in 12..14 THEN Imm16(instruction)
                     ELSE sign_extend(Imm16(instruction), 16)
                ELSE IF opcode >= 40 \/ opcode \in {34, 38} THEN v2.s.registers[rt_reg]
                ELSE U32(0)
          rd_reg == IF opcode \in {0, 28} THEN RdReg(instruction) ELSE rt_reg
      IN  IF ~ fetch.ok THEN [vm |-> v2, ok |-> FALSE]
          ELSE IF opcode \in {2, 3}
          THEN handle_jump(v2, IF opcode = 3 THEN 31 ELSE 0, target)
          ELSE IF opcode \in 4..7 \/ opcode = 1
          THEN handle_branch(v2, opcode, instruction, rt_reg, rs)
          ELSE inner_step_alu(v2, instruction, rs, rt, rd_reg)
    : fetch \in {get_memory(vm.m, vm.c, vm.s.pc)}})

\* mutant: the `exited` check is missing
inner_step_NoExitCheck(vm) == inner_step_fetch(vm)

\* mutant: a step that fails leaves the State as it was, step counter
\* included
inner_step_RollsBack(vm) ==
    IF vm.s.exited
    THEN [vm |-> vm, ok |-> TRUE]
    ELSE Bind({IF r.ok THEN r ELSE [vm |-> vm, ok |-> FALSE]
               : r \in {inner_step_fetch(vm)}})

\* mutant: a step that fails has moved the pc to next_pc
inner_step_AdvancesOnError(vm) ==
    IF vm.s.exited
    THEN [vm |-> vm, ok |-> TRUE]
    ELSE Bind({IF r.ok THEN r ELSE [vm |-> [r.vm EXCEPT !.s.pc = r.vm.s.next_pc], ok |-> FALSE]
               : r \in {inner_step_fetch(vm)}})

\* InstrumentedState::inner_step: [vm, ok]
inner_step(vm) ==
    IF vm.s.exited
    THEN [vm |-> vm, ok |-> TRUE]
    ELSE inner_step_fetch(vm)

\* InstrumentedState::step: [vm, ok, val]; val is the Option<StepWitness>
step(vm, proof) ==
    LET v0 == [vm EXCEPT !.i.mem_proof_enabled = proof,
                         !.i.last_mem_access = MAX32,
                         !.i.last_preimage_offset = MAX32]
    IN
    IF ~ proof
    THEN Bind({[vm |-> r.vm, ok |-> r.ok, val |-> None] : r \in {inner_step(v0)}})
    ELSE
    Bind({
      IF ~ instruction_proof.ok
      THEN [vm |-> [v0 EXCEPT !.m = instruction_proof.m, !.c = instruction_proof.c],
            ok |-> FALSE, val |-> None]
      ELSE
      Bind({
        LET v1 == [v0 EXCEPT !.m = w.m, !.c = w.c] IN
        IF ~ w.ok THEN [vm |-> v1, ok |-> FALSE, val |-> None] ELSE
        Bind({
          LET read == r.vm.i.last_preimage_offset # MAX32
              witness ==
                  [state           |-> w.val,
                   mem_proof       |-> instruction_proof.val \o r.vm.i.mem_proof,
                   preimage_key    |-> IF read THEN Some(r.vm.i.last_preimage_key)
                                       ELSE None,
                   preimage_value  |-> IF read THEN Some(r.vm.i.last_preimage)
                                       ELSE None,
                   preimage_offset |-> IF read THEN Some(r.vm.i.last_preimage_offset)
                                       ELSE None]
          IN  IF ~ r.ok
              THEN [vm |-> r.vm, ok |-> FALSE, val |-> None]
              ELSE [vm |-> r.vm, ok |-> TRUE, val |-> Some(witness)]
        : r \in {inner_step(v1)}})
      : w \in {encode_witness(v0.s, instruction_proof.m, instruction_proof.c)}})
    : instruction_proof \in {merkle_proof(v0.m, v0.c, v0.s.pc)}})

---------------------------------------------------------------------------
(* The Memory API as a state machine                                       *)

\* the length of the slice given to set_memory_range
RangeLen == 4

\* addresses written by set_memory in SpecSetMemory: two words of page 0 in
\* different 64-byte chunks
SetAddrs == {U32(0), U32(68)}

\* addresses written by set_memory in Spec: a word of page 0 and an unaligned
\* address
WriteAddrs == {U32(0), U32(2)}

\* addresses read by get_memory: the written ones and the last word of the
\* address space, whose page is never allocated
Addrs == WriteAddrs \cup {<<HALF - 1, HALF - 4>>}

\* addresses proven
ProofAddrs == {U32(0), <<HALF - 1, HALF - 4>>}

\* 0 and 0xAABBCCDD
Values == {U32(0), <<43707, 52445>>}

\* the calls of set_memory_range: RangeLen non-zero bytes across the end of
\* page 0, the same bytes inside page 0, and an empty slice
RangeInputs ==
    {<<U32(PAGE_SIZE - 2), [i \in 1..RangeLen |-> i]>>,
     <<U32(8), [i \in 1..RangeLen |-> i]>>,
     <<U32(8), <<>> >>}

\* the root, the root of page 0, and a generalized index one level too deep
Gindices == {1, 2 ^ PAGE_KEY_SIZE, 2 ^ (PROOF_DEPTH + 1)}

\* Memory::default() under test, beside a default machine that is not stepped
Init ==
    /\ memory = DefaultMemory
    /\ cells = <<>>
    /\ state = DefaultState
    /\ inst = InstrumentedNew
    /\ ret = [op |-> "new"]
    /\ NoHints
    /\ NoOracle /\ NoKernel /\ NoClone

SetMemory(address, value) ==
    \E r \in {set_memory(memory, cells, address, value)} :
        /\ memory' = r.m
        /\ UNCHANGED <<state, inst, hintVars, oracleVars, kernel, clone>>
        /\ cells' = r.c
        /\ ret' = [op |-> "set_memory", address |-> address, value |-> value, ok |-> r.ok]

GetMemory(address) ==
    \E r \in {get_memory(memory, cells, address)} :
        /\ memory' = r.m
        /\ UNCHANGED <<state, inst, hintVars, oracleVars, kernel, clone>>
        /\ UNCHANGED cells
        /\ ret' = [op |-> "get_memory", address |-> address, ok |-> r.ok, val |-> r.val]

MerkleRoot ==
    \E r \in {merkle_root(memory, cells)} :
        /\ memory' = r.m
        /\ UNCHANGED <<state, inst, hintVars, oracleVars, kernel, clone>>
        /\ cells' = r.c
        /\ ret' = [op |-> "merkle_root", ok |-> r.ok, val |-> r.val]

MerkleProof(address) ==
    \E r \in {merkle_proof(memory, cells, address)} :
        /\ memory' = r.m
        /\ UNCHANGED <<state, inst, hintVars, oracleVars, kernel, clone>>
        /\ cells' = r.c
        /\ ret' = [op |-> "merkle_proof", address |-> address, ok |-> r.ok, val |-> r.val]

MerkleizeSubtree(g_index) ==
    \E r \in {merkleize_subtree(memory, cells, g_index)} :
        /\ memory' = r.m
        /\ UNCHANGED <<state, inst, hintVars, oracleVars, kernel, clone>>
        /\ cells' = r.c
        /\ ret' = [op |-> "merkleize_subtree", g_index |-> g_index, ok |-> r.ok,
                   val |-> r.val]

SetMemoryRange(address, data) ==
    \E r \in {set_memory_range(memory, cells, address, data)} :
        /\ memory' = r.m
        /\ UNCHANGED <<state, inst, hintVars, oracleVars, kernel, clone>>
        /\ cells' = r.c
        /\ ret' = [op |-> "set_memory_range", address |-> address, ok |-> r.ok]

\* the data of every page of m, by page index
PageData(m, c) == [i \in DOMAIN m.pages |-> c[m.pages[i]].data]

\* test_serialize_roundtrip: merkle_root() of the original, serde_json::to_string,
\* serde_json::from_str, merkle_root() of the copy; the copy is dropped
RoundTrip ==
    \E pre \in {merkle_root(memory, cells)} :
    \E de \in {Deserialize(pre.c, Serialize(pre.m, pre.c))} :
    \E post \in {merkle_root(de.m, de.c)} :
        /\ memory' = pre.m
        /\ UNCHANGED <<state, inst, hintVars, oracleVars, kernel, clone>>
        /\ cells' = pre.c
        /\ ret' = [op |-> "roundtrip", ok |-> de.ok,
                   merkle_root_pre |-> pre.val, merkle_root_post |-> post.val,
                   pages_pre |-> PageData(pre.m, pre.c),
                   pages_post |-> PageData(de.m, post.c)]

\* aligned set_memory calls interleaved with merkle_root / merkle_proof
NextSetMemory ==
    \/ \E a \in SetAddrs, v \in Values : SetMemory(a, v)
    \/ MerkleRoot
    \/ \E a \in ProofAddrs \cup SetAddrs : MerkleProof(a)

SpecSetMemory == Init /\ [][NextSetMemory]_vars

Next ==
    \/ \E a \in WriteAddrs, v \in Values : SetMemory(a, v)
    \/ \E a \in Addrs : GetMemory(a)
    \/ MerkleRoot
    \/ \E a \in ProofAddrs : MerkleProof(a)
    \/ \E g \in Gindices : MerkleizeSubtree(g)
    \/ \E r \in RangeInputs : SetMemoryRange(r[1], r[2])
    \/ RoundTrip

Spec == Init /\ [][Next]_vars

---------------------------------------------------------------------------
(* The pages of a Memory and the last_page cache: alloc_page and           *)
(* page_lookup are public and are called here as set_memory calls them,    *)
(* and directly                                                            *)

\* the pages allocated in one behaviour
MaxPages == 3

\* the page indices used: one more than the cache has slots
PageIndices == 0..2

\* the first word of each of these pages
PageAddrs == {U32(i * PAGE_SIZE) : i \in PageIndices}

AllocPage(page_index) ==
    /\ Len(cells) < MaxPages
    /\ \E r \in {alloc_page(memory, cells, page_index)} :
        /\ memory' = r.m
        /\ cells' = r.c
        /\ ret' = [op |-> "alloc_page", page_index |-> page_index, page |-> r.page]
    /\ UNCHANGED <<state, inst, hintVars, oracleVars, kernel, clone>>

PageLookup(page_index) ==
    /\ \E r \in {page_lookup(memory, page_index)} :
        /\ memory' = r.m
        /\ ret' = [op |-> "page_lookup", page_index |-> page_index, page |-> r.page]
    /\ UNCHANGED <<cells, state, inst, hintVars, oracleVars, kernel, clone>>

NextPages ==
    \/ \E i \in PageIndices : AllocPage(i)
    \/ \E i \in PageIndices : PageLookup(i)
    \/ \E a \in PageAddrs, v \in Values : Len(cells) < MaxPages /\ SetMemory(a, v)
    \/ \E a \in PageAddrs : GetMemory(a)
    \/ \E r \in RangeInputs : Len(cells) < MaxPages - 1 /\ SetMemoryRange(r[1], r[2])

SpecPages == Init /\ [][NextPages]_vars

---------------------------------------------------------------------------
(* Memory::clone (derived): the clone has its own nodes, pages and         *)
(* last_page, whose entries are Rc handles to the page cells of the        *)
(* original; `clone` is the second Memory, over the same cells             *)

\* the words written and read on both copies: one per page
CloneAddrs == {U32(0), U32(PAGE_SIZE)}

\* #[derive(Clone)] on Memory: every field is cloned, an Rc by its handle
memory_clone(m) == m

CloneMemory ==
    /\ clone = <<>>
    /\ clone' = <<memory_clone(memory)>>
    /\ ret' = [op |-> "clone"]
    /\ UNCHANGED <<memory, cells, state, inst, hintVars, oracleVars, kernel>>

CloneSetMemory(address, value) ==
    /\ clone # <<>>
    /\ \E r \in {set_memory(clone[1], cells, address, value)} :
        /\ clone' = <<r.m>>
        /\ cells' = r.c
        /\ ret' = [op |-> "clone_set_memory", address |-> address, value |-> value,
                   ok |-> r.ok]
    /\ UNCHANGED <<memory, state, inst, hintVars, oracleVars, kernel>>

CloneSetMemoryRange(address, data) ==
    /\ clone # <<>>
    /\ \E r \in {set_memory_range(clone[1], cells, address, data)} :
        /\ clone' = <<r.m>>
        /\ cells' = r.c
        /\ ret' = [op |-> "clone_set_memory_range", address |-> address, ok |-> r.ok]
    /\ UNCHANGED <<memory, state, inst, hintVars, oracleVars, kernel>>

CloneMerkleRoot ==
    /\ clone # <<>>
    /\ \E r \in {merkle_root(clone[1], cells)} :
        /\ clone' = <<r.m>>
        /\ cells' = r.c
        /\ ret' = [op |-> "clone_merkle_root", ok |-> r.ok, val |-> r.val]
    /\ UNCHANGED <<memory, state, inst, hintVars, oracleVars, kernel>>

\* the original is written with set_memory, the clone with set_memory and
\* with set_memory_range inside page 0; the original has its root computed
\* before it is cloned
NextClone ==
    \/ CloneMemory
    \/ \E a \in CloneAddrs : SetMemory(a, <<43707, 52445>>)
    \/ \E a \in CloneAddrs : CloneSetMemory(a, U32(1))
    \/ CloneSetMemoryRange(U32(8), [i \in 1..RangeLen |-> i])
    \/ clone = <<>> /\ MerkleRoot
    \/ CloneMerkleRoot

SpecClone == Init /\ [][NextClone]_vars

---------------------------------------------------------------------------
(* The interpreter as a state machine                                      *)

\* the number of steps taken on a State that has not exited
MaxSteps == 3

\* where the program starts: 0x10000000
Base == <<4096, 0>>

\* the first instruction of the program:
\*   j 0x40, jal 0x40, jr $5, jalr $7,$5, jalr $0,$5,
\*   beq $5,$6,+3, bne $5,$6,-2, blez $5,+3, bgtz $5,+3,
\*   bltz $5,+3, bgez $5,+3, regimm rt=2 $5,+3,
\*   addiu $6,$5,-4, lw $6,8($5), sw $6,8($5), syscall, nop
\* instructions whose destination is register 0: addiu $0, $5, 3;
\* lw $0, -0x40($6); mfhi $0; mflo $0; movz $0, $5, $0; movn $0, $5, $5;
\* sc $0, 0($6); addu $0, $5, $5
ZeroWriters ==
    {<<9376, 3>>, <<36032, HALF - 64>>, <<0, 16>>, <<0, 18>>, <<160, 10>>, <<165, 11>>,
     <<57536, 0>>, <<165, 33>>}

FirstInstrs ==
    {<<2048, 16>>, <<3072, 16>>, <<160, 8>>, <<160, 14345>>, <<160, 9>>,
     <<4262, 3>>, <<5286, HALF - 2>>, <<6304, 3>>, <<7328, 3>>,
     <<1184, 3>>, <<1185, 3>>, <<1186, 3>>,
     <<9382, HALF - 4>>, <<36006, 8>>, <<44198, 8>>, <<0, 12>>, <<0, 0>>}
    \cup ZeroWriters

\* the second instruction (the delay slot of the first): j 0x40, syscall, nop
SlotInstrs == {<<2048, 16>>, <<0, 12>>, <<0, 0>>}

\* the values of register 5: zero, Base + 0x40, and a negative unaligned value
Reg5Values == {U32(0), <<4096, 64>>, <<HALF - 1, HALF - 2>>}

\* the initial next_pc: pc + 4, and pc + 8 (as in the delay slot of a jump)
NextPcs == {Add32(Base, U32(4)), Add32(Base, U32(8))}

\* a State whose memory holds a two-instruction program at Base, built with
\* set_memory, wrapped by InstrumentedState::new
InitVM ==
    \E first \in FirstInstrs, slot \in SlotInstrs, r5 \in Reg5Values, np \in NextPcs :
    \E m1 \in {set_memory(DefaultMemory, <<>>, Base, first)} :
    \E m2 \in {set_memory(m1.m, m1.c, Add32(Base, U32(4)), slot)} :
        /\ memory = m2.m
        /\ cells = m2.c
        /\ state = [DefaultState EXCEPT
                       !.pc = Base,
                       !.next_pc = np,
                       !.hi = U32(7),
                       !.lo = U32(9),
                       !.registers = [@ EXCEPT ![2] = SYS_EXIT_GROUP,
                                               ![4] = U32(257),
                                               ![5] = r5,
                                               ![6] = <<4096, 64>>]]
        /\ inst = InstrumentedNew
        /\ ret = [op |-> "new"]
        /\ NoHints
        /\ NoOracle /\ NoKernel /\ NoClone

\* one call of InstrumentedState::step
Step(proof) ==
    /\ state.exited \/ state.step < MaxSteps
    /\ \E r \in {step([s |-> state, m |-> memory, c |-> cells, i |-> inst,
                       fx |-> NoEffects], proof)} :
        /\ state' = r.vm.s
        /\ memory' = r.vm.m
        /\ cells' = r.vm.c
        /\ inst' = r.vm.i
        /\ ret' = [op |-> "step", proof |-> proof, ok |-> r.ok, val |-> r.val,
                   panic |-> r.vm.fx.panic, events |-> r.vm.fx.events]
        /\ UNCHANGED <<hintVars, oracleVars, kernel, clone>>

NextVM == \E proof \in BOOLEAN : Step(proof)

SpecVM == InitVM /\ [][NextVM]_vars

---------------------------------------------------------------------------
(* The syscalls: a State about to execute one syscall instruction          *)

\* where the bytes the syscalls read and write are: Base + 0x40
Data == Add32(Base, U32(64))

\* the pointers passed in a1: aligned, unaligned by 1 and by 3, and two
\* bytes before the end of the page
DataPtrs == {Data, Add32(Data, U32(1)), Add32(Data, U32(3)), Add32(Base, U32(PAGE_SIZE - 2))}

\* a preimage key other than the all-zero key
Key1 == [ZeroBlock EXCEPT ![1] = 2, ![2 ^ LEAF_BITS] = 7]

\* <<v0, a0, a1, a2, preimage_key, preimage_offset>> of the read syscalls
ReadCases ==
    {<<SYS_READ, U32(fd), a1, U32(n), key, U32(off)>> :
        fd \in {0, 3, 5, 7, 261}, a1 \in DataPtrs, n \in {0, 1, 4},
        key \in {ZeroBlock, Key1}, off \in {0, 6, 11, 12}}

\* the write syscalls
WriteCases ==
    {<<SYS_WRITE, U32(fd), a1, U32(n), Key1, U32(6)>> :
        fd \in {1, 2, 4, 6, 7}, a1 \in DataPtrs, n \in {0, 1, 4, 5, 6, 8}}

\* fcntl, mmap, brk, clone, exit_group and two numbers that are no syscall
OtherCases ==
    {<<SYS_FCNTL, U32(fd), U32(cmd), U32(0), Key1, U32(0)>> : fd \in 0..7, cmd \in {1, 3}}
    \cup {<<SYS_MMAP, a0, U32(sz), U32(0), Key1, U32(0)>> :
              a0 \in {U32(0), Data}, sz \in {0, 1, PAGE_SIZE, PAGE_SIZE + 1}}
    \cup {<<n, U32(257), U32(0), U32(0), Key1, U32(0)>> :
              n \in {SYS_BRK, SYS_CLONE, SYS_EXIT_GROUP, U32(0), U32(4005)}}

\* brk followed by a store conditional to the address in a1
ScCases ==
    {<<SYS_BRK, U32(0), a1, U32(n), Key1, U32(0)>> : a1 \in DataPtrs, n \in {0, 4}}

\* the instruction between the two syscalls: `sc $6, 0($5)` in the cases of
\* ScCases, `addiu $2, $0, number` (the same syscall twice) in the others
SecondInstr(case) ==
    IF case \in ScCases THEN <<56 * 1024 + 5 * 32 + 6, 0>>
    ELSE <<9 * 1024 + 2, Lo(case[1])>>

\* a State whose memory holds the program `syscall; SecondInstr; syscall`
\* at Base and the bytes 00 00 00 01 AA 00 00 00 at Data, built with
\* set_memory, wrapped by InstrumentedState::new
SysStart(oracle_ok) ==
    \E case \in ReadCases \cup WriteCases \cup OtherCases \cup ScCases :
    \E m1 \in {set_memory(DefaultMemory, <<>>, Base, U32(12))} :
    \E m2 \in {set_memory(m1.m, m1.c, Data, U32(1))} :
    \E m3 \in {set_memory(m2.m, m2.c, Add32(Data, U32(4)), <<170 * 256, 0>>)} :
    \E m4 \in {set_memory(m3.m, m3.c, Add32(Base, U32(4)), SecondInstr(case))} :
    \E m5 \in {set_memory(m4.m, m4.c, Add32(Base, U32(8)), U32(12))} :
        /\ memory = m5.m
        /\ cells = m5.c
        /\ state = [DefaultState EXCEPT
                       !.pc = Base,
                       !.next_pc = Add32(Base, U32(4)),
                       !.preimage_key = case[5],
                       !.preimage_offset = case[6],
                       !.registers = [@ EXCEPT ![2] = case[1],
                                               ![4] = case[2],
                                               ![5] = case[3],
                                               ![6] = case[4],
                                               ![7] = U32(1)]]
        /\ inst = [InstrumentedNew EXCEPT !.oracle_ok = oracle_ok]
        /\ ret = [op |-> "new"]
        /\ NoHints
        /\ NoOracle /\ NoKernel /\ NoClone

\* with an oracle whose calls return Ok
InitSys == SysStart(TRUE)

SpecSys == InitSys /\ [][NextVM]_vars

\* with an oracle whose calls return Err
InitSysErr == SysStart(FALSE)

SpecSysErr == InitSysErr /\ [][NextVM]_vars

---------------------------------------------------------------------------
(* encode_witness and state_hash on States built field by field            *)

\* the exit codes, step counts and heap values of the States hashed
ExitCodes == {0, 1, 2, 3, 255}

StepCounts == {0, 1, 258}

HeapValues == {U32(0), U32(1), <<256, 0>>}

\* a State given field by field (State's fields are public), over an empty
\* memory or one holding a word
InitStateHash ==
    \E exited \in BOOLEAN, exit_code \in ExitCodes, n \in StepCounts, heap \in HeapValues,
       written \in BOOLEAN :
    \E m1 \in {IF written THEN set_memory(DefaultMemory, <<>>, U32(0), U32(1))
                ELSE [m |-> DefaultMemory, c |-> <<>>, ok |-> TRUE]} :
        /\ memory = m1.m
        /\ cells = m1.c
        /\ state = [DefaultState EXCEPT !.exited = exited, !.exit_code = exit_code,
                                        !.step = n, !.heap = heap]
        /\ inst = InstrumentedNew
        /\ ret = [op |-> "new"]
        /\ NoHints
        /\ NoOracle /\ NoKernel /\ NoClone

\* state.encode_witness()?.state_hash()
StateHash ==
    \E w \in {encode_witness(state, memory, cells)} :
        /\ w.ok
        /\ memory' = w.m
        /\ cells' = w.c
        /\ ret' = [op |-> "state_hash", witness |-> StateWitnessBytes(w.val),
                   val |-> state_hash(StateWitnessBytes(w.val))]
        /\ UNCHANGED <<state, inst, hintVars, oracleVars, kernel, clone>>

SpecStateHash == InitStateHash /\ [][StateHash]_vars

---------------------------------------------------------------------------
(* The hint channel of crate preimage: a task that owns a HintWriter and   *)
(* a task that owns a HintReader, joined by the two pipes of               *)
(* create_bidirectional_channel. hint_writer is [hints, sent, written, pc, *)
(* results], hint_reader is [routers, i, pc, length, payload, router_ok,   *)
(* received, results], channel is [to_reader, to_writer, writer_closed].   *)
(* A pipe is the sequence of the bytes written and not yet read; a write   *)
(* to a pipe appends all its bytes at once, a read blocks while the pipe   *)
(* is empty and its write end is open.                                     *)

\* the longest list of hints of a writer task
MaxHints == 3

\* the payloads of the hints: empty, one zero byte, two bytes
HintPayloads == {<<>>, <<0>>, <<7, 9>>}

\* the lists of at most MaxHints hints
HintLists == UNION {[1..n -> HintPayloads] : n \in 0..MaxHints}

\* File::read on the read end of a pipe that is not empty or whose write
\* end is closed: [n, buf, pipe]
pipe_read(pipe, len) ==
    LET n == Min(len, Len(pipe))
    IN  [n |-> n, buf |-> SubSeq(pipe, 1, n), pipe |-> SubSeq(pipe, n + 1, Len(pipe))]

\* Read::read_exact on the read end of a pipe that holds len bytes or whose
\* write end is closed: [ok, buf, pipe]
pipe_read_exact(pipe, len) ==
    IF Len(pipe) < len
    THEN [ok |-> FALSE, buf |-> pipe, pipe |-> <<>>]
    ELSE [ok |-> TRUE, buf |-> SubSeq(pipe, 1, len),
          pipe |-> SubSeq(pipe, len + 1, Len(pipe))]

\* mutant: the length is written little-endian
hint_bytes_LittleEndian(hint) ==
    <<Len(hint) % 256, (Len(hint) \div 256) % 256, 0, 0>> \o hint

\* HintWriter::hint, the frame: (hint.len() as u32).to_be_bytes() || hint
hint_bytes(hint) == to_be_bytes(U32(Len(hint))) \o hint

\* mutant: hint returns after the write, without reading the ACK
hint_write_NoAck(task, io) ==
    [task |-> [task EXCEPT !.written = @ + 1,
                           !.sent = @ + 1,
                           !.results = Append(@, "Ok"),
                           !.pc = IF task.sent + 1 = Len(task.hints) THEN "done" ELSE "hint"],
     io |-> [io EXCEPT !.to_reader = @ \o hint_bytes(task.hints[task.sent + 1]),
                       !.writer_closed = task.sent + 1 = Len(task.hints)]]

\* HintWriter::hint up to `self.io.write(&hint_bytes)?`: [task, io]
hint_write(task, io) ==
    [task |-> [task EXCEPT !.written = @ + 1, !.pc = "read_ack"],
     io |-> [io EXCEPT !.to_reader = @ \o hint_bytes(task.hints[task.sent + 1])]]

\* HintWriter::hint from `self.io.read_exact(&mut [0])?` to its return, and
\* the loop of the writer task around it: after the last hint the task ends
\* and drops the HintWriter, which closes its ends of the pipes: [task, io]
hint_read_ack(task, io) ==
    LET ack == pipe_read_exact(io.to_writer, 1)
        last == task.sent + 1 = Len(task.hints)
    IN  [task |-> [task EXCEPT !.sent = @ + 1,
                               !.results = Append(@, IF ack.ok THEN "Ok" ELSE "Err"),
                               !.pc = IF last THEN "done" ELSE "hint"],
         io |-> [io EXCEPT !.to_writer = ack.pipe, !.writer_closed = last]]

\* HintReader::next_hint up to the payload: the read of the length; fewer
\* than 4 bytes make the call return Ok(true), on which the reader task
\* leaves its loop: [task, io]
next_hint_length(task, io) ==
    LET r == pipe_read(io.to_reader, 4)
        length == AsNat(from_be_bytes(r.buf))
    IN  IF r.n < 4
        THEN [task |-> [task EXCEPT !.results = Append(@, "Ok(true)"), !.pc = "done"],
              io |-> [io EXCEPT !.to_reader = r.pipe]]
        ELSE [task |-> [task EXCEPT !.length = length,
                                    !.payload = <<>>,
                                    !.pc = IF length = 0 THEN "router" ELSE "read_payload"],
              io |-> [io EXCEPT !.to_reader = r.pipe]]

\* HintReader::next_hint, `self.io.read_exact(&mut raw_payload)?`: [task, io]
next_hint_payload(task, io) ==
    LET r == pipe_read_exact(io.to_reader, task.length)
    IN  IF ~ r.ok
        THEN [task |-> [task EXCEPT !.results = Append(@, "Err"),
                                    !.i = @ + 1,
                                    !.pc = IF task.i + 1 = Len(task.routers)
                                           THEN "done" ELSE "next_hint"],
              io |-> [io EXCEPT !.to_reader = r.pipe]]
        ELSE [task |-> [task EXCEPT !.payload = r.buf, !.pc = "router"],
              io |-> [io EXCEPT !.to_reader = r.pipe]]

\* HintReader::next_hint, `router(&payload)`: the handler is invoked with
\* the payload and returns Ok or Err as the task's routers say: [task, io]
next_hint_router(task, io) ==
    [task |-> [task EXCEPT !.received = Append(@, task.payload),
                           !.router_ok = task.routers[task.i + 1],
                           !.pc = "write_ack"],
     io |-> io]

\* mutant: the ACK is written only when the handler succeeded
next_hint_ack_OnlyOnOk(task, io) ==
    [task |-> [task EXCEPT !.results = Append(@, IF task.router_ok THEN "Ok(false)"
                                                  ELSE "Err"),
                           !.i = @ + 1,
                           !.pc = IF task.i + 1 = Len(task.routers)
                                  THEN "done" ELSE "next_hint"],
     io |-> [io EXCEPT !.to_writer = IF task.router_ok THEN Append(@, 0) ELSE @]]

\* HintReader::next_hint from the router's result to its return, and the
\* loop of the reader task around it: `self.io.write(&[0])?` in both
\* branches, then Err or Ok(false): [task, io]
next_hint_ack(task, io) ==
    [task |-> [task EXCEPT !.results = Append(@, IF task.router_ok THEN "Ok(false)"
                                                  ELSE "Err"),
                           !.i = @ + 1,
                           !.pc = IF task.i + 1 = Len(task.routers)
                                  THEN "done" ELSE "next_hint"],
     io |-> [io EXCEPT !.to_writer = Append(@, 0)]]

\* the two tasks of test_hint and cb_error before their first step: the
\* writer task has its hints, the reader task one router per hint, each of
\* which returns Ok (TRUE) or Err (FALSE); the pipes are empty
InitHints ==
    \E hints \in HintLists :
    \E routers \in [1..Len(hints) -> BOOLEAN] :
        /\ hint_writer = [hints |-> hints, sent |-> 0, written |-> 0,
                          pc |-> IF hints = <<>> THEN "done" ELSE "hint",
                          results |-> <<>>]
        /\ hint_reader = [routers |-> routers, i |-> 0,
                          pc |-> IF hints = <<>> THEN "done" ELSE "next_hint",
                          length |-> 0, payload |-> <<>>, router_ok |-> TRUE,
                          received |-> <<>>, results |-> <<>>]
        /\ channel = [to_reader |-> <<>>, to_writer |-> <<>>,
                      writer_closed |-> hints = <<>>]
        /\ memory = DefaultMemory
        /\ cells = <<>>
        /\ state = DefaultState
        /\ inst = InstrumentedNew
        /\ ret = [op |-> "new"]
        /\ NoOracle /\ NoKernel /\ NoClone

\* the writer task writes the frame of its next hint
WriterWrite ==
    /\ hint_writer.pc = "hint"
    /\ \E r \in {hint_write(hint_writer, channel)} :
        /\ hint_writer' = r.task
        /\ channel' = r.io
    /\ UNCHANGED <<hint_reader, vmVars, oracleVars, kernel, clone>>

\* the writer task, blocked in read_exact, receives a byte
WriterReadAck ==
    /\ hint_writer.pc = "read_ack"
    /\ channel.to_writer # <<>>
    /\ \E r \in {hint_read_ack(hint_writer, channel)} :
        /\ hint_writer' = r.task
        /\ channel' = r.io
    /\ UNCHANGED <<hint_reader, vmVars, oracleVars, kernel, clone>>

\* the reader task, blocked in read, receives bytes or the end of the file
ReaderReadLength ==
    /\ hint_reader.pc = "next_hint"
    /\ channel.to_reader # <<>> \/ channel.writer_closed
    /\ \E r \in {next_hint_length(hint_reader, channel)} :
        /\ hint_reader' = r.task
        /\ channel' = r.io
    /\ UNCHANGED <<hint_writer, vmVars, oracleVars, kernel, clone>>

\* the reader task, blocked in read_exact, receives the payload
ReaderReadPayload ==
    /\ hint_reader.pc = "read_payload"
    /\ Len(channel.to_reader) >= hint_reader.length \/ channel.writer_closed
    /\ \E r \in {next_hint_payload(hint_reader, channel)} :
        /\ hint_reader' = r.task
        /\ channel' = r.io
    /\ UNCHANGED <<hint_writer, vmVars, oracleVars, kernel, clone>>

\* the reader task calls the router
ReaderRoute ==
    /\ hint_reader.pc = "router"
    /\ \E r \in {next_hint_router(hint_reader, channel)} :
        /\ hint_reader' = r.task
        /\ channel' = r.io
    /\ UNCHANGED <<hint_writer, vmVars, oracleVars, kernel, clone>>

\* the reader task writes the ACK and next_hint returns
ReaderWriteAck ==
    /\ hint_reader.pc = "write_ack"
    /\ \E r \in {next_hint_ack(hint_reader, channel)} :
        /\ hint_reader' = r.task
        /\ channel' = r.io
    /\ UNCHANGED <<hint_writer, vmVars, oracleVars, kernel, clone>>

WriterStep == WriterWrite \/ WriterReadAck

ReaderStep == ReaderReadLength \/ ReaderReadPayload \/ ReaderRoute \/ ReaderWriteAck

NextHints == WriterStep \/ ReaderStep

SpecHints == InitHints /\ [][NextHints]_vars

\* the two tasks run on the two worker threads of the runtime: a task that
\* can take a step takes it
FairSpecHints == SpecHints /\ WF_vars(WriterStep) /\ WF_vars(ReaderStep)

---------------------------------------------------------------------------
(* The preimage channel of crate preimage: per request one task that calls *)
(* OracleClient::get and one that calls OracleServer::new_preimage_request,*)
(* joined by two std::sync::mpsc channels. oracle_client is [preimages,    *)
(* done, pc, length, results], oracle_server is [pc, value, served], mpsc  *)
(* is [to_server, to_client]: the messages sent and not yet received, each *)
(* a Vec<u8>. send never blocks, recv blocks while the channel is empty.   *)

\* the longest list of preimages of test_preimage
MaxRequests == 3

\* the preimages: empty, one zero byte, two bytes
Preimages == {<<>>, <<0>>, <<19, 55>>}

\* the lists of at most MaxRequests preimages
PreimageLists == UNION {[1..n -> Preimages] : n \in 0..MaxRequests}

\* Keccak256Key::preimage_key of keccak256(preimage): the type byte and the
\* hash, an ideal hash named by its preimage
Keccak256KeyOf(preimage) == <<2, preimage>>

\* the PreimageGetter of test_preimage: preimage_by_hash.get(&key)
Getter(key) == key[2]

\* u64::from_be_bytes of a slice of 8 bytes whose value is below 2^31
U64FromBeBytes(b) ==
    ((((((b[1] * 256 + b[2]) * 256 + b[3]) * 256 + b[4]) * 256 + b[5]) * 256
        + b[6]) * 256 + b[7]) * 256 + b[8]

\* OracleClient::get, `self.tx.send(hash.to_vec())?`: [task, ch]
get_send(task, ch) ==
    [task |-> [task EXCEPT !.pc = "recv_length"],
     ch |-> [ch EXCEPT !.to_server =
                Append(@, Keccak256KeyOf(task.preimages[task.done + 1]))]]

\* OracleClient::get, the recv of the length: a length of 0 makes get
\* return an empty payload without a second recv: [task, ch]
get_length(task, ch) ==
    LET length == U64FromBeBytes(Head(ch.to_client))
    IN  [task |-> IF length = 0
                  THEN [task EXCEPT !.length = 0,
                                    !.results = Append(@, <<>>),
                                    !.pc = "end"]
                  ELSE [task EXCEPT !.length = length, !.pc = "recv_payload"],
         ch |-> [ch EXCEPT !.to_client = Tail(@)]]

\* OracleClient::get, `self.rx.recv()?` of the payload and the return: [task, ch]
get_payload(task, ch) ==
    [task |-> [task EXCEPT !.results = Append(@, Head(ch.to_client)), !.pc = "end"],
     ch |-> [ch EXCEPT !.to_client = Tail(@)]]

\* OracleServer::new_preimage_request, the recv of the key and the call of
\* the getter: [task, ch]
request_recv(task, ch) ==
    [task |-> [task EXCEPT !.value = Getter(Head(ch.to_server)), !.pc = "send_length"],
     ch |-> [ch EXCEPT !.to_server = Tail(@)]]

\* mutant: the value is sent even when it is empty
request_send_length_AlwaysValue(task, ch) ==
    [task |-> [task EXCEPT !.pc = "send_value"],
     ch |-> [ch EXCEPT !.to_client = Append(@, LenToBeBytes(Len(task.value)))]]

\* OracleServer::new_preimage_request, the send of
\* (value.len() as u64).to_be_bytes(): [task, ch]
request_send_length(task, ch) ==
    [task |-> [task EXCEPT !.pc = IF task.value # <<>> THEN "send_value" ELSE "end",
                           !.served = IF task.value # <<>> THEN @ ELSE @ + 1],
     ch |-> [ch EXCEPT !.to_client = Append(@, LenToBeBytes(Len(task.value)))]]

\* OracleServer::new_preimage_request, `self.tx.send(value)?` and the
\* return: [task, ch]
request_send_value(task, ch) ==
    [task |-> [task EXCEPT !.pc = "end", !.served = @ + 1],
     ch |-> [ch EXCEPT !.to_client = Append(@, task.value)]]

\* test_preimage before its first request: the client and the server are
\* made and the tasks of the first preimage are spawned
InitOracle ==
    \E preimages \in PreimageLists :
        /\ oracle_client = [preimages |-> preimages, done |-> 0,
                            pc |-> IF preimages = <<>> THEN "end" ELSE "get",
                            length |-> 0, results |-> <<>>]
        /\ oracle_server = [pc |-> IF preimages = <<>> THEN "end" ELSE "recv",
                            value |-> <<>>, served |-> 0]
        /\ mpsc = [to_server |-> <<>>, to_client |-> <<>>]
        /\ memory = DefaultMemory
        /\ cells = <<>>
        /\ state = DefaultState
        /\ inst = InstrumentedNew
        /\ ret = [op |-> "new"]
        /\ NoHints /\ NoKernel /\ NoClone

\* the client task sends the key
ClientSend ==
    /\ oracle_client.pc = "get"
    /\ \E r \in {get_send(oracle_client, mpsc)} :
        /\ oracle_client' = r.task
        /\ mpsc' = r.ch
    /\ UNCHANGED <<oracle_server, vmVars, hintVars, kernel, clone>>

\* the client task, blocked in recv, receives the length
ClientRecvLength ==
    /\ oracle_client.pc = "recv_length"
    /\ mpsc.to_client # <<>>
    /\ \E r \in {get_length(oracle_client, mpsc)} :
        /\ oracle_client' = r.task
        /\ mpsc' = r.ch
    /\ UNCHANGED <<oracle_server, vmVars, hintVars, kernel, clone>>

\* the client task, blocked in recv, receives the payload
ClientRecvPayload ==
    /\ oracle_client.pc = "recv_payload"
    /\ mpsc.to_client # <<>>
    /\ \E r \in {get_payload(oracle_client, mpsc)} :
        /\ oracle_client' = r.task
        /\ mpsc' = r.ch
    /\ UNCHANGED <<oracle_server, vmVars, hintVars, kernel, clone>>

\* the server task, blocked in recv, receives the key and asks the getter
ServerRecv ==
    /\ oracle_server.pc = "recv"
    /\ mpsc.to_server # <<>>
    /\ \E r \in {request_recv(oracle_server, mpsc)} :
        /\ oracle_server' = r.task
        /\ mpsc' = r.ch
    /\ UNCHANGED <<oracle_client, vmVars, hintVars, kernel, clone>>

\* the server task sends the length
ServerSendLength ==
    /\ oracle_server.pc = "send_length"
    /\ \E r \in {request_send_length(oracle_server, mpsc)} :
        /\ oracle_server' = r.task
        /\ mpsc' = r.ch
    /\ UNCHANGED <<oracle_client, vmVars, hintVars, kernel, clone>>

\* the server task sends the value
ServerSendValue ==
    /\ oracle_server.pc = "send_value"
    /\ \E r \in {request_send_value(oracle_server, mpsc)} :
        /\ oracle_server' = r.task
        /\ mpsc' = r.ch
    /\ UNCHANGED <<oracle_client, vmVars, hintVars, kernel, clone>>

\* test_preimage, `tokio::try_join!(join_a, join_b)` and the next turn of
\* its loop: both tasks have ended and the tasks of the next preimage are
\* spawned
JoinRequest ==
    /\ oracle_client.pc = "end"
    /\ oracle_server.pc = "end"
    /\ oracle_client.done < Len(oracle_client.preimages)
    /\ LET more == oracle_client.done + 1 < Len(oracle_client.preimages)
       IN  /\ oracle_client' = [oracle_client EXCEPT !.done = @ + 1,
                                   !.pc = IF more THEN "get" ELSE "end"]
           /\ oracle_server' = [oracle_server EXCEPT
                                   !.pc = IF more THEN "recv" ELSE "end"]
    /\ UNCHANGED <<mpsc, vmVars, hintVars, kernel, clone>>

ClientStep == ClientSend \/ ClientRecvLength \/ ClientRecvPayload

ServerStep == ServerRecv \/ ServerSendLength \/ ServerSendValue

NextOracle == ClientStep \/ ServerStep \/ JoinRequest

SpecOracle == InitOracle /\ [][NextOracle]_vars

\* the tasks run on the two worker threads of the runtime and the test
\* awaits them: a task that can take a step takes it
FairSpecOracle ==
    SpecOracle /\ WF_vars(ClientStep) /\ WF_vars(ServerStep) /\ WF_vars(JoinRequest)

---------------------------------------------------------------------------
(* The step patterns of crate cannon: create_matcher and Matcher::matches. *)
(* A String is the sequence of its characters; a Matcher is <<"Never">>,   *)
(* <<"Always">>, <<"Equal", n>> or <<"MultipleOf", n>>.                    *)

\* the longest pattern that is neither "never" nor "always"
MaxPatternLen == 3

\* the characters of the patterns
PatternChars == {"=", "%", "+", "-", "0", "1", "3", "x"}

\* the steps a matcher is asked about
MatchSteps == 0..6

Digits == {"0", "1", "2", "3", "4", "5", "6", "7", "8", "9"}

DigitValue(c) ==
    CASE c = "0" -> 0 [] c = "1" -> 1 [] c = "2" -> 2 [] c = "3" -> 3 [] c = "4" -> 4
      [] c = "5" -> 5 [] c = "6" -> 6 [] c = "7" -> 7 [] c = "8" -> 8 [] c = "9" -> 9

RECURSIVE DecimalValue(_)
\* the value of a sequence of digits, the first the most significant
DecimalValue(digits) ==
    IF digits = <<>> THEN 0
    ELSE DecimalValue(SubSeq(digits, 1, Len(digits) - 1)) * 10
            + DigitValue(digits[Len(digits)])

\* str::parse::<u64>: [ok, val]; a leading `+` is accepted, an empty
\* string, a lone sign, a `-` and any other non-digit are errors; the
\* strings of the model are too short to overflow a u64
parse_u64(src) ==
    LET digits == IF src # <<>> /\ src[1] = "+" THEN Tail(src) ELSE src
    IN  IF digits = <<>> \/ \E k \in DOMAIN digits : digits[k] \notin Digits
        THEN [ok |-> FALSE, val |-> 0]
        ELSE [ok |-> TRUE, val |-> DecimalValue(digits)]

\* the two patterns that are words
Never == <<"n", "e", "v", "e", "r">>

Always == <<"a", "l", "w", "a", "y", "s">>

\* create_matcher: [ok, val]; pattern is an Option<&String>
create_matcher(pattern) ==
    IF pattern = None THEN [ok |-> TRUE, val |-> <<"Never">>]
    ELSE LET pat == pattern[1]
             n == parse_u64(Tail(pat))
         IN  CASE pat = Never -> [ok |-> TRUE, val |-> <<"Never">>]
               [] pat = Always -> [ok |-> TRUE, val |-> <<"Always">>]
               [] pat \notin {Never, Always} /\ pat # <<>> /\ pat[1] = "=" ->
                      IF n.ok THEN [ok |-> TRUE, val |-> <<"Equal", n.val>>]
                      ELSE [ok |-> FALSE, val |-> <<>>]
               [] pat \notin {Never, Always} /\ pat # <<>> /\ pat[1] = "%" ->
                      IF n.ok THEN [ok |-> TRUE, val |-> <<"MultipleOf", n.val>>]
                      ELSE [ok |-> FALSE, val |-> <<>>]
               [] OTHER -> [ok |-> FALSE, val |-> <<>>]

\* Matcher::matches: [panic, val]; `value % steps` panics when steps is 0
matches(matcher, value) ==
    CASE matcher[1] = "Never" -> [panic |-> FALSE, val |-> FALSE]
      [] matcher[1] = "Always" -> [panic |-> FALSE, val |-> TRUE]
      [] matcher[1] = "Equal" -> [panic |-> FALSE, val |-> value = matcher[2]]
      [] matcher[1] = "MultipleOf" ->
             IF matcher[2] = 0 THEN [panic |-> TRUE, val |-> FALSE]
             ELSE [panic |-> FALSE, val |-> value % matcher[2] = 0]

\* the patterns given to create_matcher
Patterns ==
    {None, Some(Never), Some(Always)}
    \cup {Some(p) : p \in UNION {[1..n -> PatternChars] : n \in 0..MaxPatternLen}}

\* a pattern that create_matcher has not seen yet
InitMatcher ==
    \E pattern \in Patterns :
        /\ kernel = [pattern |-> pattern, created |-> FALSE, matcher |-> <<>>]
        /\ ret = [op |-> "new"]
        /\ memory = DefaultMemory
        /\ cells = <<>>
        /\ state = DefaultState
        /\ inst = InstrumentedNew
        /\ NoHints /\ NoOracle /\ NoClone

CreateMatcher ==
    /\ ~ kernel.created
    /\ \E r \in {create_matcher(kernel.pattern)} :
        /\ kernel' = [kernel EXCEPT !.created = TRUE, !.matcher = r.val]
        /\ ret' = [op |-> "create_matcher", ok |-> r.ok]
    /\ UNCHANGED <<memory, cells, state, inst, hintVars, oracleVars, clone>>

Matches(value) ==
    /\ kernel.created
    /\ kernel.matcher # <<>>
    /\ \E r \in {matches(kernel.matcher, value)} :
        /\ ret' = [op |-> "matches", value |-> value, panic |-> r.panic, val |-> r.val]
    /\ UNCHANGED <<kernel, memory, cells, state, inst, hintVars, oracleVars, clone>>

NextMatcher == CreateMatcher \/ \E value \in MatchSteps : Matches(value)

SpecMatcher == InitMatcher /\ [][NextMatcher]_vars

---------------------------------------------------------------------------
(* The shift functions of execute, under both settings of the build's      *)
(* overflow checks: with the checks a shift by 32 or more and a            *)
(* subtraction below zero panic, without them the shift amount is taken    *)
(* modulo 32 and the subtraction wraps, which is what Shl32, Shr32 and     *)
(* sign_extend compute.                                                    *)

\* sign_extend(data, index) in a build with overflow checks: `index - 1`,
\* `32 - index` and the shifts by index - 1, 32 - index and index
sign_extend_overflows(index) ==
    \/ index - 1 \notin 0..31
    \/ 32 - index \notin 0..31
    \/ index \notin 0..31

\* execute in a build with overflow checks, the shift functions: whether
\* the evaluation panics. sll, srl, sllv and srlv mask their amount; sra
\* calls sign_extend(rt >> shamt, 32 - shamt); srav shifts by rs and
\* subtracts rs from 32 unmasked
execute_overflows(instruction, rs, rt) ==
    LET fun == Fun(instruction)
        shamt == Shamt(instruction)
    IN  CASE fun = 3 -> sign_extend_overflows(32 - shamt)
          [] fun = 7 -> \/ Hi(rs) # 0
                        \/ Lo(rs) > 31
                        \/ sign_extend_overflows(32 - Lo(rs))
          [] fun \in {0, 2, 4, 6} -> FALSE

\* the shift functions: sll, srl, sra, sllv, srlv, srav
ShiftFuns == {0, 2, 3, 4, 6, 7}

\* the shamt fields, the values of rs and the values of rt
Shamts == {0, 1, 4, 16, 31}

ShiftRs == {U32(0), U32(1), U32(5), U32(31), U32(32), U32(33), U32(37), <<1, 1>>,
            <<HALF - 1, HALF - 31>>}

ShiftRt == {U32(0), U32(1), <<HALF \div 2, 0>>, <<HALF - 1, HALF - 1>>,
            <<HALF \div 2 - 1, HALF - 1>>, <<HALF \div 2 + 1, 6>>}

\* a shift instruction and its operands, and the build it runs in: with
\* (checks) or without overflow checks
InitShift ==
    \E fun \in ShiftFuns, shamt \in Shamts, rs \in ShiftRs, rt \in ShiftRt,
       checks \in BOOLEAN :
        /\ ret = [op |-> "input", fun |-> fun, shamt |-> shamt, rs |-> rs, rt |-> rt,
                  checks |-> checks]
        /\ memory = DefaultMemory
        /\ cells = <<>>
        /\ state = DefaultState
        /\ inst = InstrumentedNew
        /\ NoHints /\ NoOracle /\ NoKernel /\ NoClone

\* execute(instruction, rs, rt, 0) for the shift instruction
ExecuteShift ==
    /\ ret.op = "input"
    /\ LET instruction == <<0, ret.shamt * 64 + ret.fun>>
       IN  \E r \in {execute(instruction, ret.rs, ret.rt, U32(0))} :
            ret' = [op |-> "execute", fun |-> ret.fun, shamt |-> ret.shamt,
                    rs |-> ret.rs, rt |-> ret.rt, checks |-> ret.checks,
                    panic |-> ret.checks /\ execute_overflows(instruction, ret.rs, ret.rt),
                    ok |-> r.ok, val |-> r.val]
    /\ UNCHANGED <<memory, cells, state, inst, hintVars, oracleVars, kernel, clone>>

SpecShift == InitShift /\ [][ExecuteShift]_vars

---------------------------------------------------------------------------
(* Kernel::run of crate cannon: the loop that steps the machine, the tasks  *)
(* it spawns to write snapshots and proofs, and the final state. A path or *)
(* a format is the sequence of its characters; the file system is a        *)
(* function from the paths written to what they hold.                      *)

\* "%d.json.gz", the default of proof_format and of snapshot_format
DefaultFormat == <<"%", "d", ".", "j", "s", "o", "n", ".", "g", "z">>

\* format!("{}", step) for the step counts of the model
FormatStep(n) == <<CASE n = 0 -> "0" [] n = 1 -> "1" [] n = 2 -> "2" [] n = 3 -> "3"
                     [] n = 4 -> "4" [] n = 5 -> "5" [] n = 6 -> "6" [] n = 7 -> "7"
                     [] n = 8 -> "8" [] n = 9 -> "9">>

\* str::replace("%d", with): every occurrence, left to right
RECURSIVE replace_d(_, _)
replace_d(s, with) ==
    IF s = <<>> THEN <<>>
    ELSE IF Len(s) >= 2 /\ s[1] = "%" /\ s[2] = "d"
    THEN with \o replace_d(SubSeq(s, 3, Len(s)), with)
    ELSE <<s[1]>> \o replace_d(Tail(s), with)

\* serde_json::to_vec(&state): the scalar fields and the serialized memory
SerializeState(st, m, c) == [state |-> st, memory |-> Serialize(m, c)]

\* the Proof built by the proof task (step_input and oracle_input are
\* encodings of the fields listed)
ProofOf(at, pre, post, witness) ==
    [step          |-> at,
     pre           |-> pre,
     post          |-> post,
     state_data    |-> witness.state,
     proof_data    |-> witness.mem_proof,
     oracle_key    |-> witness.preimage_key,
     oracle_value  |-> witness.preimage_value,
     oracle_offset |-> witness.preimage_offset]

\* fs::write(path, contents)
fs_write(files, path, contents) ==
    [p \in DOMAIN files \cup {path} |-> IF p = path THEN contents ELSE files[p]]

\* the program `first; nop; syscall` with v0 = exit_group: first is a nop,
\* the syscall, or `lw $6, 8($5)` with an unaligned $5
KernelFirstInstrs == {<<0, 0>>, <<0, 12>>, <<36006, 8>>}

\* --stop-at, --snapshot-at, --proof-at
StopPatterns == {None, Some(<<"=", "1">>), Some(<<"%", "0">>)}

SnapshotPatterns == {None, Some(<<"%", "2">>), Some(<<"%", "0">>)}

ProofPatterns == {None, Some(<<"=", "0">>), Some(<<"x">>)}

\* --output: absent, the empty path, a path
Outputs == {None, Some(<<>>), Some(<<"o", "u", "t">>)}

\* --proof-format: absent, "p%d"
ProofFormats == {None, Some(<<"p", "%", "d">>)}

\* the preimage server process: none, one that runs, one that has exited
ServerProcs == {None, Some("running"), Some("exited")}

\* a Kernel about to run: the fields given to Kernel::new, the locals of
\* run, the files written and the text printed
InitKernel ==
    \E first \in KernelFirstInstrs, stop \in StopPatterns, snap \in SnapshotPatterns,
       proof \in ProofPatterns, output \in Outputs, pfmt \in ProofFormats,
       proc \in ServerProcs :
    \E m1 \in {set_memory(DefaultMemory, <<>>, Base, first)} :
    \E m2 \in {set_memory(m1.m, m1.c, Add32(Base, U32(8)), U32(12))} :
        /\ memory = m2.m
        /\ cells = m2.c
        /\ state = [DefaultState EXCEPT
                       !.pc = Base,
                       !.next_pc = Add32(Base, U32(4)),
                       !.registers = [@ EXCEPT ![2] = SYS_EXIT_GROUP,
                                               ![4] = U32(257),
                                               ![5] = <<HALF - 1, HALF - 2>>]]
        /\ inst = InstrumentedNew
        /\ ret = [op |-> "new"]
        /\ kernel = [pos             |-> "create",
                     stop_at         |-> stop,
                     snapshot_at     |-> snap,
                     proof_at        |-> proof,
                     output          |-> output,
                     proof_format    |-> pfmt,
                     snapshot_format |-> None,
                     server_proc     |-> proc,
                     step            |-> 0,
                     io_tasks        |-> <<>>,
                     files           |-> <<>>,
                     stdout          |-> <<>>,
                     result          |-> "running"]
        /\ NoHints /\ NoOracle /\ NoClone

\* run returns (Ok or Err) or panics; the runtime is dropped with it
Return(k, result) == [k EXCEPT !.pos = "done", !.result = result]

\* the three create_matcher calls and the two formats
RunCreate ==
    /\ kernel.pos = "create"
    /\ \E stop \in {create_matcher(kernel.stop_at)},
          proof \in {create_matcher(kernel.proof_at)},
          snap \in {create_matcher(kernel.snapshot_at)} :
        kernel' =
            IF ~ (stop.ok /\ proof.ok /\ snap.ok) THEN Return(kernel, "Err")
            ELSE [kernel EXCEPT
                    !.pos = "loop",
                    !.stop_at = stop.val,
                    !.proof_at = proof.val,
                    !.snapshot_at = snap.val,
                    !.proof_format =
                        IF @ = None THEN DefaultFormat ELSE @[1],
                    !.snapshot_format =
                        IF @ = None THEN DefaultFormat ELSE @[1]]
    /\ ret' = [op |-> "create"]
    /\ UNCHANGED <<memory, cells, state, inst, hintVars, oracleVars, clone>>

\* the loop condition and the stop check
RunStopCheck ==
    /\ kernel.pos = "loop"
    /\ \E stop \in {matches(kernel.stop_at, state.step)} :
        /\ kernel' =
              CASE state.exited -> [kernel EXCEPT !.pos = "output"]
                [] ~ state.exited /\ stop.panic -> Return(kernel, "panic")
                [] ~ state.exited /\ ~ stop.panic /\ stop.val ->
                       [kernel EXCEPT !.pos = "output", !.step = state.step]
                [] ~ state.exited /\ ~ stop.panic /\ ~ stop.val ->
                       [kernel EXCEPT !.pos = "snapshot", !.step = state.step]
        /\ ret' = [op |-> "stop_check", exited |-> state.exited,
                   val |-> ~ state.exited /\ stop.val]
    /\ UNCHANGED <<memory, cells, state, inst, hintVars, oracleVars, clone>>

\* the snapshot: the State is serialized here, the task writes the bytes
RunSnapshot ==
    /\ kernel.pos = "snapshot"
    /\ \E snap \in {matches(kernel.snapshot_at, kernel.step)} :
        /\ kernel' =
              CASE snap.panic -> Return(kernel, "panic")
                [] ~ snap.panic /\ snap.val ->
                       [kernel EXCEPT
                          !.pos = "step",
                          !.io_tasks = Append(@,
                              [kind |-> "snapshot",
                               step |-> kernel.step,
                               path |-> replace_d(kernel.snapshot_format,
                                                  FormatStep(kernel.step)),
                               contents |-> SerializeState(state, memory, cells),
                               done |-> FALSE])]
                [] ~ snap.panic /\ ~ snap.val -> [kernel EXCEPT !.pos = "step"]
        /\ ret' = [op |-> "snapshot", val |-> ~ snap.panic /\ snap.val]
    /\ UNCHANGED <<memory, cells, state, inst, hintVars, oracleVars, clone>>

\* the proof branch: [vm, ok, panic, task]
run_proof(vm, k) ==
    Bind({
      IF ~ pre.ok
      THEN [vm |-> [vm EXCEPT !.m = pre.m, !.c = pre.c], ok |-> FALSE, val |-> None,
            task |-> <<>>]
      ELSE
      Bind({
        IF ~ r.ok \/ r.vm.fx.panic \/ r.val = None
        THEN [vm |-> r.vm, ok |-> FALSE, val |-> r.val, task |-> <<>>]
        ELSE
        Bind({
          IF ~ post.ok
          THEN [vm |-> [r.vm EXCEPT !.m = post.m, !.c = post.c], ok |-> FALSE,
                val |-> r.val, task |-> <<>>]
          ELSE [vm |-> [r.vm EXCEPT !.m = post.m, !.c = post.c], ok |-> TRUE,
                val |-> r.val,
                task |-> <<[kind |-> "proof",
                            step |-> k.step,
                            path |-> replace_d(k.proof_format, FormatStep(k.step)),
                            contents |-> ProofOf(k.step,
                                                 state_hash(StateWitnessBytes(pre.val)),
                                                 state_hash(StateWitnessBytes(post.val)),
                                                 r.val[1]),
                            done |-> FALSE]>>]
        : post \in {encode_witness(r.vm.s, r.vm.m, r.vm.c)}})
      : r \in {step([vm EXCEPT !.m = pre.m, !.c = pre.c], TRUE)}})
    : pre \in {encode_witness(vm.s, vm.m, vm.c)}})

\* the other branch: step(false)
run_step(vm) ==
    Bind({[vm |-> r.vm, ok |-> r.ok /\ ~ r.vm.fx.panic, val |-> r.val, task |-> <<>>]
          : r \in {step(vm, FALSE)}})

\* the periodic check of the preimage server: TRUE when run bails
server_exited(k) == k.step % 10000000 = 0 /\ k.server_proc = Some("exited")

\* the rest of the iteration: the proof or the plain step, then the check
\* of the preimage server
RunStep ==
    /\ kernel.pos = "step"
    /\ \E proof \in {matches(kernel.proof_at, kernel.step)} :
       \E r \in {IF proof.panic
                 THEN [vm |-> [s |-> state, m |-> memory, c |-> cells, i |-> inst,
                               fx |-> [NoEffects EXCEPT !.panic = TRUE]],
                       ok |-> FALSE, val |-> None, task |-> <<>>]
                 ELSE IF proof.val
                 THEN run_proof([s |-> state, m |-> memory, c |-> cells, i |-> inst,
                                 fx |-> NoEffects], kernel)
                 ELSE run_step([s |-> state, m |-> memory, c |-> cells, i |-> inst,
                                fx |-> NoEffects])} :
        /\ state' = r.vm.s
        /\ memory' = r.vm.m
        /\ cells' = r.vm.c
        /\ inst' = r.vm.i
        /\ kernel' =
              CASE r.vm.fx.panic -> Return(kernel, "panic")
                [] ~ r.vm.fx.panic /\ ~ r.ok -> Return(kernel, "Err")
                [] ~ r.vm.fx.panic /\ r.ok /\ server_exited(kernel) ->
                       Return([kernel EXCEPT !.io_tasks = @ \o r.task], "Err")
                [] ~ r.vm.fx.panic /\ r.ok /\ ~ server_exited(kernel) ->
                       [kernel EXCEPT !.pos = "loop", !.io_tasks = @ \o r.task]
        /\ ret' = [op |-> "step", proof |-> ~ proof.panic /\ proof.val,
                   stepped |-> ~ proof.panic, ok |-> r.ok, val |-> r.val,
                   panic |-> r.vm.fx.panic, events |-> r.vm.fx.events]
    /\ UNCHANGED <<hintVars, oracleVars, clone>>

\* the final state: written to `output`, printed when there is no output,
\* neither when output is the empty path
RunOutput ==
    /\ kernel.pos = "output"
    /\ kernel' =
          CASE kernel.output = None ->
                   [kernel EXCEPT !.pos = "await",
                                  !.stdout = Append(@, SerializeState(state, memory, cells))]
            [] kernel.output # None /\ kernel.output[1] # <<>> ->
                   [kernel EXCEPT !.pos = "await",
                                  !.files = fs_write(@, kernel.output[1],
                                                SerializeState(state, memory, cells))]
            [] kernel.output # None /\ kernel.output[1] = <<>> ->
                   [kernel EXCEPT !.pos = "await"]
    /\ ret' = [op |-> "output"]
    /\ UNCHANGED <<memory, cells, state, inst, hintVars, oracleVars, clone>>

\* `for task in io_tasks { task.await??; }` and Ok(()): each await
\* returns once its task has finished
RunAwait ==
    /\ kernel.pos = "await"
    /\ \A k \in DOMAIN kernel.io_tasks : kernel.io_tasks[k].done
    /\ kernel' = Return(kernel, "Ok")
    /\ ret' = [op |-> "await"]
    /\ UNCHANGED <<memory, cells, state, inst, hintVars, oracleVars, clone>>

\* a spawned task, on a worker thread of the runtime: it writes its file
IoTask(k) ==
    /\ kernel.pos # "done"
    /\ ~ kernel.io_tasks[k].done
    /\ kernel' = [kernel EXCEPT
                    !.io_tasks[k].done = TRUE,
                    !.files = fs_write(@, kernel.io_tasks[k].path,
                                       kernel.io_tasks[k].contents)]
    /\ UNCHANGED <<memory, cells, state, inst, ret, hintVars, oracleVars, clone>>

Run == RunCreate \/ RunStopCheck \/ RunSnapshot \/ RunStep \/ RunOutput \/ RunAwait

IoTasks == \E k \in DOMAIN kernel.io_tasks : IoTask(k)

NextKernel == Run \/ IoTasks

SpecKernel == InitKernel /\ [][NextKernel]_vars

\* block_on drives run to its end once the loop is left, the worker threads
\* drive the tasks spawned
FairSpecKernel ==
    SpecKernel /\ WF_vars(RunOutput) /\ WF_vars(RunAwait) /\ WF_vars(IoTasks)

---------------------------------------------------------------------------
(* Reference definitions: digests computed from the page contents alone     *)

\* the digest of the subtree at generalized index g of one page
RECURSIVE PageDigest(_, _)
PageDigest(data, g) ==
    IF g >= PAGE_SIZE_WORDS
    THEN Block(data, (g - PAGE_SIZE_WORDS) * (2 ^ LEAF_BITS))
    ELSE keccak_concat_fixed(PageDigest(data, g * 2), PageDigest(data, g * 2 + 1))

\* the page indices of pd that lie below the overlay node g
PagesUnder(pd, g) ==
    {i \in DOMAIN pd : ((2 ^ PAGE_KEY_SIZE) + i) \div (2 ^ (PAGE_KEY_SIZE + 1 - BitLen(g))) = g}

\* the digest of the overlay node g over the pages pd (page index -> data),
\* every absent page being all zero
RECURSIVE TreeDigest(_, _)
TreeDigest(pd, g) ==
    IF PagesUnder(pd, g) = {}
    THEN ZERO_HASHES(PROOF_DEPTH + 1 - BitLen(g))
    ELSE IF BitLen(g) = PAGE_KEY_SIZE + 1
    THEN PageDigest(pd[g - (2 ^ PAGE_KEY_SIZE)], 1)
    ELSE keccak_concat_fixed(TreeDigest(pd, g * 2), TreeDigest(pd, g * 2 + 1))

\* the pages that hold a non-zero byte
NonZeroPages(m, c) ==
    LET pd == PageData(m, c)
    IN  [i \in {j \in DOMAIN pd : pd[j] # DefaultPage.data} |-> pd[i]]

\* folding a proof: entry k + 1 is the sibling at height k, on the left iff
\* bit k of (address >> LEAF_BITS) is set
RECURSIVE FoldProof(_, _, _)
FoldProof(proof, address, k) ==
    IF k = 0 THEN proof[1]
    ELSE LET node == FoldProof(proof, address, k - 1)
         IN  IF AddrBit(address, LEAF_BITS + k - 1)
             THEN keccak_concat_fixed(proof[k + 1], node)
             ELSE keccak_concat_fixed(node, proof[k + 1])

\* the 32 bytes of the leaf that contains address
LeafOf(pd, address) ==
    IF PageIndexOf(address) \in DOMAIN pd
    THEN Block(pd[PageIndexOf(address)],
               (PageAddrOf(address) \div (2 ^ LEAF_BITS)) * (2 ^ LEAF_BITS))
    ELSE ZeroBlock

\* what get_memory(a) returns in the current state
Word(m, c, a) == get_memory(m, c, a).val

\* the aligned addresses observed: the ones read, the neighbour of word 0,
\* and the words set_memory_range writes inside page 0
AlignedAddrs == {a \in Addrs : ~ Unaligned(a)} \cup {U32(4), U32(8), U32(68)}

---------------------------------------------------------------------------
(* Claims                                                                  *)

\* C1: after any sequence of set_memory, set_memory_range, merkle_root,
\* merkle_proof and merkleize_subtree calls no cached overlay digest is stale:
\* every overlay entry Some(h) has h equal to the digest of its subtree
\* computed from the current page contents, and so has the root entry.
C1_NoStaleDigest ==
    \A g \in DOMAIN memory.nodes :
        memory.nodes[g] # None => memory.nodes[g][1] = TreeDigest(PageData(memory, cells), g)

\* C2: in a run of aligned set_memory calls interleaved with merkle_root and
\* merkle_proof, each set_memory leaves the root of the written page and
\* every overlay ancestor up to gindex 1 not cached as valid, the next
\* merkle_root() is the root of the written contents, and no overlay entry
\* that is cached as valid is stale.
C2_SetMemoryInvalidates ==
    /\ (ret.op = "set_memory" /\ ret.ok) =>
          LET page_index == PageIndexOf(ret.address)
          IN  /\ page_index \in DOMAIN memory.pages
              /\ ~ is_valid(cells[memory.pages[page_index]], 1)
              /\ \A g \in Branch((2 ^ PAGE_KEY_SIZE) + page_index) :
                    g \in DOMAIN memory.nodes /\ memory.nodes[g] = None
              /\ merkle_root(memory, cells).val = TreeDigest(PageData(memory, cells), 1)
    /\ \A g \in DOMAIN memory.nodes :
          memory.nodes[g] = None
          \/ memory.nodes[g] = Some(TreeDigest(PageData(memory, cells), g))

\* C2 witness: a set_memory into a page that already exists and of which a
\* digest had been computed before the write
C2_Witness ==
    /\ ret.op = "set_memory" /\ ret.ok /\ ret.address = U32(0)
    /\ is_valid(cells[memory.pages[0]], PAGE_SIZE_WORDS - 1)
    /\ memory.nodes[1] = None

\* C3: merkle_proof(addr) returns 28 entries, the first being the raw leaf
\* that contains addr; folding the leaf with the other 27, left or right by
\* the bits of addr >> 5 from the least significant, gives merkle_root().
C3_ProofFoldsToRoot ==
    (ret.op = "merkle_proof") =>
        /\ ret.ok
        /\ Len(ret.val) = PROOF_DEPTH + 1
        /\ ret.val[1] = LeafOf(PageData(memory, cells), ret.address)
        /\ FoldProof(ret.val, ret.address, PROOF_DEPTH) = merkle_root(memory, cells).val

\* C4: merkle_root() depends only on the memory contents, not on which pages
\* are allocated: it is the digest of the tree over the pages that hold a
\* non-zero byte (zero_hashes[27] when there is none).
C4_RootOfContents ==
    (ret.op = "merkle_root") => ret.ok /\ ret.val = TreeDigest(NonZeroPages(memory, cells), 1)

\* C5: get_memory(a) and set_memory(a, v) fail iff a mod 4 # 0, and a failed
\* set_memory changes no word, allocates no page and leaves merkle_root()
\* as it was.
C5_AlignmentErrors ==
    [][/\ ret'.op \in {"set_memory", "get_memory"} => (ret'.ok <=> Lo(ret'.address) % 4 = 0)
       /\ (ret'.op = "set_memory" /\ ~ ret'.ok) =>
             /\ DOMAIN memory'.pages = DOMAIN memory.pages
             /\ PageData(memory', cells') = PageData(memory, cells)
             /\ merkle_root(memory', cells').val = merkle_root(memory, cells).val]_vars

\* C5 witness: a set_memory has failed on a Memory that holds a non-zero word
C5_Witness ==
    /\ ret.op = "set_memory" /\ ~ ret.ok
    /\ Word(memory, cells, U32(0)) # U32(0)

\* C6: Memory is a total map from aligned addresses to words, initially 0
\* everywhere: set_memory(a, v) makes get_memory(a) return v and changes the
\* value of no other aligned address, get_memory returns the value of the map
\* and allocates no page, and merkle_root, merkle_proof and merkleize_subtree
\* change no word.
C6_TotalMap ==
    /\ \A a \in AlignedAddrs : Word(memory, cells, a) = U32(0)
    /\ [][/\ (ret'.op = "set_memory" /\ ret'.ok) =>
                /\ Word(memory', cells', ret'.address) = ret'.value
                /\ \A b \in AlignedAddrs \ {ret'.address} :
                      Word(memory', cells', b) = Word(memory, cells, b)
          /\ (ret'.op = "get_memory" /\ ret'.ok) =>
                /\ ret'.val = Word(memory, cells, ret'.address)
                /\ DOMAIN memory'.pages = DOMAIN memory.pages
                /\ cells' = cells
          /\ ret'.op \in {"get_memory", "merkle_root", "merkle_proof", "merkleize_subtree"} =>
                \A b \in AlignedAddrs : Word(memory', cells', b) = Word(memory, cells, b)]_vars

\* C6 witness: get_memory returns a written non-zero word while a neighbour
\* in the same page still reads 0
C6_Witness ==
    /\ ret.op = "get_memory" /\ ret.ok /\ ret.address = U32(0) /\ ret.val # U32(0)
    /\ Word(memory, cells, U32(4)) = U32(0)

\* C7: deserialize(serialize(memory)) has the same page indices with the
\* same page data, and merkle_root() of the original, called before
\* serialization, equals merkle_root() of the deserialized copy.
C7_RoundTrip ==
    (ret.op = "roundtrip") =>
        /\ ret.ok
        /\ ret.pages_post = ret.pages_pre
        /\ ret.merkle_root_post = ret.merkle_root_pre

\* the instruction at the pc of an aligned State
Fetch == Word(memory, cells, state.pc)

\* j, jal, jr, jalr and the branch opcodes 1, 4, 5, 6, 7
IsJump(instruction) == Opcode(instruction) \in {2, 3}

IsJumpRegister(instruction) == Opcode(instruction) = 0 /\ Fun(instruction) \in {8, 9}

IsBranch(instruction) == Opcode(instruction) \in {1, 4, 5, 6, 7}

\* a step is about to execute a jump or a branch
AtJumpOrBranch ==
    /\ ~ state.exited
    /\ ~ Unaligned(state.pc)
    /\ IsJump(Fetch) \/ IsJumpRegister(Fetch) \/ IsBranch(Fetch)

\* the 16-bit immediate, sign-extended
SignExtImm(instruction) ==
    IF Lo(instruction) >= HALF \div 2 THEN <<HALF - 1, Lo(instruction)>>
    ELSE <<0, Lo(instruction)>>

\* the branch conditions of beq, bne, blez, bgtz, bltz, bgez
BranchTaken(instruction, registers) ==
    LET rs == registers[RsReg(instruction)]
        rt == registers[RtReg(instruction)]
    IN  CASE Opcode(instruction) = 4 -> rs = rt
          [] Opcode(instruction) = 5 -> rs # rt
          [] Opcode(instruction) = 6 -> Negative(rs) \/ rs = U32(0)
          [] Opcode(instruction) = 7 -> ~ Negative(rs) /\ rs # U32(0)
          [] Opcode(instruction) = 1 /\ RtReg(instruction) = 0 -> Negative(rs)
          [] Opcode(instruction) = 1 /\ RtReg(instruction) = 1 -> ~ Negative(rs)
          [] OTHER -> FALSE

\* C8: once state.exited is true, every step(proof), with proof true or
\* false, returns without error and leaves every State field and the memory
\* contents unchanged.
C8_ExitedIsTerminal ==
    [][state.exited =>
          /\ ret'.op = "step" /\ ret'.ok
          /\ state' = state
          /\ PageData(memory', cells') = PageData(memory, cells)]_vars

\* C8 witness: a step(true) was called on a State that had already exited
C8_Witness ==
    /\ state.exited
    /\ ret.op = "step" /\ ret.ok /\ ret.val # None
    /\ ret.val[1].state.exited

\* C9: a j, jal, jr, jalr or branch executed with next_pc # pc + 4 makes step
\* return an error, and pc, next_pc, the registers and the memory contents
\* keep their pre-step values.
C9_DelaySlotFault ==
    [][(AtJumpOrBranch /\ state.next_pc # Add32(state.pc, U32(4))) =>
          /\ ret'.op = "step" /\ ~ ret'.ok
          /\ state'.pc = state.pc
          /\ state'.next_pc = state.next_pc
          /\ state'.registers = state.registers
          /\ PageData(memory', cells') = PageData(memory, cells)]_vars

\* C9 witness: a jr in the delay slot position of a jump has failed after the
\* first instruction had run
C9_Witness ==
    /\ ret.op = "step" /\ ~ ret.ok
    /\ AtJumpOrBranch
    /\ state.next_pc # Add32(state.pc, U32(4))
    /\ state.step > 1

\* C10: a successful jump or branch step sets pc to the old next_pc and
\* next_pc to the target: (old next_pc & 0xF0000000) | ((instr & 0x03FFFFFF)
\* << 2) for j and jal, the value of rs for jr and jalr, old pc + 4 +
\* (sign_extend(imm16) << 2) for a taken branch and old next_pc + 4 for a
\* branch not taken; jal writes old pc + 8 to r31, jalr writes it to rd
\* unless rd is 0, and no other register changes.
C10_JumpBranchTarget ==
    [][(AtJumpOrBranch /\ ret'.op = "step" /\ ret'.ok) =>
          LET link == Add32(state.pc, U32(8))
          IN  /\ state'.pc = state.next_pc
              /\ IsJump(Fetch) =>
                    state'.next_pc =
                        <<(Hi(state.next_pc) \div 4096) * 4096 + (Hi(Shl32(Fetch, 2)) % 4096),
                          Lo(Shl32(Fetch, 2))>>
              /\ IsJumpRegister(Fetch) =>
                    state'.next_pc = state.registers[RsReg(Fetch)]
              /\ IsBranch(Fetch) =>
                    state'.next_pc =
                        IF BranchTaken(Fetch, state.registers)
                        THEN Add32(Add32(state.pc, U32(4)), Shl32(SignExtImm(Fetch), 2))
                        ELSE Add32(state.next_pc, U32(4))
              /\ state'.registers =
                    IF Opcode(Fetch) = 3
                    THEN [state.registers EXCEPT ![31] = link]
                    ELSE IF IsJumpRegister(Fetch) /\ Fun(Fetch) = 9 /\ RdReg(Fetch) # 0
                    THEN [state.registers EXCEPT ![RdReg(Fetch)] = link]
                    ELSE state.registers]_vars

\* C10 witness: a bne with a negative offset was taken from Base
C10_Witness ==
    /\ ret.op = "step" /\ ret.ok
    /\ state.step = 1
    /\ state.pc = Add32(Base, U32(4))
    /\ state.next_pc = Sub32(Base, U32(4))

\* the target of the jump or branch at pc
Target ==
    IF IsJump(Fetch)
    THEN <<(Hi(state.next_pc) \div 4096) * 4096 + (Hi(Shl32(Fetch, 2)) % 4096),
           Lo(Shl32(Fetch, 2))>>
    ELSE IF IsJumpRegister(Fetch) THEN state.registers[RsReg(Fetch)]
    ELSE IF BranchTaken(Fetch, state.registers)
    THEN Add32(Add32(state.pc, U32(4)), Shl32(SignExtImm(Fetch), 2))
    ELSE Add32(state.next_pc, U32(4))

\* C11 as stated: after any branch or jump step, the following step begins
\* with pc == target and next_pc == target + 4.
C11_NextStepAtTarget ==
    [][(AtJumpOrBranch /\ ret'.op = "step" /\ ret'.ok) =>
          /\ state'.pc = Target
          /\ state'.next_pc = Add32(Target, U32(4))]_vars

\* C11 amended: after a successful branch or jump step the following step
\* (the delay slot) begins with pc == old pc + 4 and next_pc == target; a
\* successful step of any other instruction that does not exit begins the
\* step after it with pc == old next_pc and next_pc == old next_pc + 4, so
\* that the step after the delay slot begins with pc == target and
\* next_pc == target + 4.
C11_DelaySlotThenTarget ==
    [][(~ state.exited /\ ret'.op = "step" /\ ret'.ok /\ ~ state'.exited) =>
          IF AtJumpOrBranch
          THEN /\ state'.pc = Add32(state.pc, U32(4))
               /\ state'.next_pc = Target
          ELSE /\ state'.pc = state.next_pc
               /\ state'.next_pc = Add32(state.next_pc, U32(4))]_vars

\* C11 witness: the delay slot of the jump to Base + 0x40 has run, and the
\* next step begins at the target
C11_Witness ==
    /\ ret.op = "step" /\ ret.ok
    /\ ~ state.exited
    /\ state.step = 2
    /\ state.pc = Add32(Base, U32(64))
    /\ state.next_pc = Add32(Base, U32(68))

\* C12: registers[0] == 0 is an invariant of execution: from a State with
\* registers[0] = 0, after any sequence of steps (ALU and load write-back,
\* jal/jalr link, mfhi/mflo, movz/movn, sc, syscalls) register 0 holds 0.
C12_RegisterZero == state.registers[0] = U32(0)

\* C12 witness: lw $0, -0x40($6) has loaded the non-zero word at Base with
\* register 0 as its destination
C12_Witness ==
    /\ ret.op = "step" /\ ret.ok
    /\ state.step = 1
    /\ Word(memory, cells, Base) = <<36032, HALF - 64>>
    /\ <<"load", Base>> \in {ret.events[k] : k \in 1..Len(ret.events)}

\* a step is about to execute a syscall instruction
AtSyscall ==
    /\ ~ state.exited
    /\ ~ Unaligned(state.pc)
    /\ Opcode(Fetch) = 0 /\ Fun(Fetch) = 12

\* C13: a syscall step with v0 (r2) = 4246 sets exited := true and
\* exit_code := a0 & 0xFF and changes no other State field except the step
\* counter: pc and next_pc are not advanced, and all registers (including r2
\* and r7), hi, lo, heap and memory are unchanged.
C13_ExitGroupFrame ==
    [][(AtSyscall /\ state.registers[2] = SYS_EXIT_GROUP) =>
          /\ ret'.op = "step" /\ ret'.ok
          /\ state' = [state EXCEPT !.exited = TRUE,
                                    !.exit_code = Lo(state.registers[4]) % 256,
                                    !.step = @ + 1]
          /\ PageData(memory', cells') = PageData(memory, cells)]_vars

\* C13 witness: exit_group with a0 = 257 has exited with code 1 in the delay
\* slot position, after a first instruction had run
C13_Witness ==
    /\ ret.op = "step" /\ ret.ok
    /\ state.exited /\ state.exit_code = 1
    /\ state.registers[4] = U32(257)
    /\ state.step = 2
    /\ state.pc = Add32(Base, U32(4))

\* C14: state.step never decreases: it increases by exactly 1 on every
\* step() call made on a non-exited State (before the instruction is
\* executed, so also when the step fails) and by 0 on an exited State, and
\* nothing else changes it.
C14_StepCounter ==
    [][/\ ret'.op = "step"
       /\ state'.step = IF state.exited THEN state.step ELSE state.step + 1]_vars

\* C14 witness: the third step failed to fetch from an unaligned pc and was
\* counted
C14_Witness ==
    /\ ret.op = "step" /\ ~ ret.ok
    /\ Unaligned(state.pc)
    /\ state.step = MaxSteps

\* C15: for every State s, byte 0 of state_hash(encode_witness(s)) is 3 if
\* s.exited is false (for any exit_code), else 0 if exit_code = 0, 1 if
\* exit_code = 1, and 2 for every other exit_code; bytes 1..31 are those of
\* keccak(witness); the witness has STATE_WITNESS_SIZE bytes.
C15_StatusByte ==
    ret.op = "state_hash" =>
        /\ Len(ret.witness) = STATE_WITNESS_SIZE
        /\ Len(ret.val) = 2 ^ LEAF_BITS
        /\ ret.val[1] = IF ~ state.exited THEN 3
                        ELSE IF state.exit_code = 0 THEN 0
                        ELSE IF state.exit_code = 1 THEN 1
                        ELSE 2
        /\ \A i \in 2..(2 ^ LEAF_BITS) : ret.val[i] = <<keccak256(ret.witness), i>>

\* C15 witness: a State that exited with code 255 after 258 steps hashes to
\* status 2 (Panic)
C15_Witness ==
    /\ ret.op = "state_hash"
    /\ state.exited /\ state.exit_code = 255 /\ state.step = 258
    /\ ret.val[1] = 2

\* the data addresses a step read or wrote
DataAddrs(events) ==
    {events[k][2] : k \in {j \in 1..Len(events) : events[j][1] \in {"load", "store"}}}

\* C16: for every step(true), StepWitness.state is encode_witness of the
\* State as it was before the step (step counter not yet incremented), the
\* first 28 entries of mem_proof are merkle_proof(pre-step pc), and if the
\* step accesses data address A the other 28 are merkle_proof(A) taken
\* before any memory write of the step: both proofs start at the pre-step
\* leaf and fold to the memory root stored in StepWitness.state.
C16_WitnessBeforeStep ==
    [][(ret'.op = "step" /\ ret'.proof /\ ret'.ok) =>
          /\ ret'.val # None
          /\ LET w == ret'.val[1]
                 pd == PageData(memory, cells)
                 root == TreeDigest(NonZeroPages(memory, cells), 1)
                 first == SubSeq(w.mem_proof, 1, PROOF_DEPTH + 1)
                 second == SubSeq(w.mem_proof, PROOF_DEPTH + 2, 2 * (PROOF_DEPTH + 1))
             IN  /\ w.state = [memory_root     |-> root,
                               preimage_key    |-> state.preimage_key,
                               preimage_offset |-> state.preimage_offset,
                               pc              |-> state.pc,
                               next_pc         |-> state.next_pc,
                               lo              |-> state.lo,
                               hi              |-> state.hi,
                               heap            |-> state.heap,
                               exit_code       |-> state.exit_code,
                               exited          |-> state.exited,
                               step            |-> state.step,
                               registers       |-> state.registers]
                 /\ Len(w.mem_proof) = 2 * (PROOF_DEPTH + 1)
                 /\ first[1] = LeafOf(pd, state.pc)
                 /\ FoldProof(first, state.pc, PROOF_DEPTH) = root
                 /\ \A A \in DataAddrs(ret'.events) :
                       /\ second[1] = LeafOf(pd, A)
                       /\ FoldProof(second, A, PROOF_DEPTH) = root]_vars

\* C17: when step(true) executes an instruction that performs no data
\* memory access, entries 29..56 of the returned mem_proof (bytes 896 to
\* 1791) are all zero, whatever steps were executed earlier on the same
\* InstrumentedState.
C17_NoAccessZeroProof ==
    [][(ret'.op = "step" /\ ret'.proof /\ ret'.ok /\ DataAddrs(ret'.events) = {}) =>
          /\ ret'.val # None
          /\ SubSeq(ret'.val[1].mem_proof, PROOF_DEPTH + 2, 2 * (PROOF_DEPTH + 1))
                = ZeroProof]_vars

\* a step is about to execute a read syscall on fd 5 (a0 as u8)
AtPreimageRead ==
    /\ AtSyscall
    /\ state.registers[2] = SYS_READ
    /\ Lo(state.registers[4]) % 256 = 5

\* C18: StepWitness.preimage_key, preimage_value and preimage_offset are
\* Some if and only if the step was a read syscall on fd 5; when present,
\* the key is the State's preimage_key, the value is the 8-byte big-endian
\* length followed by the preimage, and the offset is the preimage_offset
\* before the read.
C18_PreimageFields ==
    [][(ret'.op = "step" /\ ret'.proof /\ ret'.ok) =>
          /\ ret'.val # None
          /\ LET w == ret'.val[1]
                 preimage == Oracle(state.preimage_key)
             IN  /\ (w.preimage_key # None) = AtPreimageRead
                 /\ (w.preimage_value # None) = AtPreimageRead
                 /\ (w.preimage_offset # None) = AtPreimageRead
                 /\ AtPreimageRead =>
                       /\ w.preimage_key = Some(state.preimage_key)
                       /\ w.preimage_value = Some(LenToBeBytes(Len(preimage)) \o preimage)
                       /\ w.preimage_offset = Some(state.preimage_offset)]_vars

\* C19: within any single step at most one aligned data address other than
\* the instruction word at pc is read or written in memory, for every
\* instruction and every syscall (including write syscalls on fds 1, 2 and 4
\* with any length a2); with witness capture on, a step does not succeed
\* after touching a second, different aligned address.
C19_AtMostOneDataAddress ==
    [][ret'.op = "step" =>
          Cardinality(DataAddrs(ret'.events) \ {state.pc}) <= 1]_vars

\* a step is about to execute a write syscall on fd 4 (a0 as u8)
AtHintWrite ==
    /\ AtSyscall
    /\ state.registers[2] = SYS_WRITE
    /\ Lo(state.registers[4]) % 256 = 4

\* the n bytes of the memory contents from address a on
BytesAt(pd, a, n) ==
    [i \in 1..n |->
        LET b == Add32(a, U32(i - 1))
        IN  IF PageIndexOf(b) \in DOMAIN pd THEN pd[PageIndexOf(b)][PageAddrOf(b)] ELSE 0]

\* the framing of C20: <<what stays buffered, the hints delivered>>
RECURSIVE Frames(_, _)
Frames(buffer, hints) ==
    IF Len(buffer) >= 4 /\ ~ Lt32(U32(Len(buffer) - 4), from_be_bytes(SubSeq(buffer, 1, 4)))
    THEN LET n == AsNat(from_be_bytes(SubSeq(buffer, 1, 4)))
         IN  Frames(SubSeq(buffer, 5 + n, Len(buffer)), Append(hints, SubSeq(buffer, 5, 4 + n)))
    ELSE <<buffer, hints>>

IsHint(event) == event[1] = "hint"

\* C20: a write syscall on fd 4 appends the a2 bytes at a1 to last_hint and
\* then, while last_hint holds at least 4 bytes whose big-endian value n
\* satisfies n <= len(last_hint) - 4, delivers last_hint[4..4+n] to the
\* oracle's hint and removes those 4 + n bytes; a frame that is not yet
\* complete stays buffered and delivers nothing; the step succeeds with
\* v0 = a2.
C20_HintFraming ==
    [][AtHintWrite =>
          LET a2 == state.registers[6]
              written == BytesAt(PageData(memory, cells), state.registers[5], AsNat(a2))
              expected == Frames(state.last_hint \o written, <<>>)
              delivered == SelectSeq(ret'.events, IsHint)
          IN  /\ ret'.op = "step" /\ ret'.ok
              /\ state'.last_hint = expected[1]
              /\ [k \in 1..Len(delivered) |-> delivered[k][2]] = expected[2]
              /\ state'.registers[2] = a2]_vars

\* the byte of the memory contents at address b
ByteAt(pd, b) ==
    IF PageIndexOf(b) \in DOMAIN pd THEN pd[PageIndexOf(b)][PageAddrOf(b)] ELSE 0

\* the bytes of the page of Base, where the program and its data are
BaseBytes == {Add32(Base, U32(k)) : k \in 0..(PAGE_SIZE - 1)}

\* the addresses a .. a + n - 1
ByteRange(a, n) == {Add32(a, U32(k)) : k \in 0..(n - 1)}

\* the smaller of two numbers
Least(a, b) == IF a < b THEN a ELSE b

\* C21: a read syscall on fd 5 copies n = min(4 - (a1 & 3), a2, remaining)
\* bytes, where remaining = 8 + len(preimage) - preimage_offset, of (8-byte
\* big-endian length || preimage of state.preimage_key) starting at
\* preimage_offset into memory at a1 .. a1 + n - 1; the other bytes of the
\* word and all other words are unchanged; preimage_offset increases by
\* exactly n; v0 = n and v1 = 0; so preimage_offset never exceeds
\* 8 + len(preimage).
C21_PreimageRead ==
    [][(AtPreimageRead
        /\ AsNat(state.preimage_offset) <= 8 + Len(Oracle(state.preimage_key))) =>
          LET stream == LenToBeBytes(Len(Oracle(state.preimage_key)))
                            \o Oracle(state.preimage_key)
              offset == AsNat(state.preimage_offset)
              a1 == state.registers[5]
              n == Least(Least(4 - (Lo(a1) % 4), AsNat(state.registers[6])),
                         Len(stream) - offset)
              pd == PageData(memory, cells)
              pd2 == PageData(memory', cells')
          IN  /\ ret'.op = "step" /\ ret'.ok
              /\ BytesAt(pd2, a1, n) = SubSeq(stream, offset + 1, offset + n)
              /\ \A b \in BaseBytes \ ByteRange(a1, n) : ByteAt(pd2, b) = ByteAt(pd, b)
              /\ DOMAIN pd2 = DOMAIN pd
              /\ state'.preimage_offset = U32(offset + n)
              /\ state'.registers[2] = U32(n)
              /\ state'.registers[7] = U32(0)]_vars

\* a step is about to execute a write syscall on fd 6 (a0 as u8)
AtPreimageWrite ==
    /\ AtSyscall
    /\ state.registers[2] = SYS_WRITE
    /\ Lo(state.registers[4]) % 256 = 6

\* C22: a write syscall on fd 6 with n = min(4 - (a1 & 3), a2) replaces
\* preimage_key by its last 32 - n bytes followed by the n memory bytes at
\* a1 .. a1 + n - 1, sets preimage_offset := 0, returns v0 = n and v1 = 0,
\* and leaves the memory contents unchanged.
C22_PreimageWrite ==
    [][AtPreimageWrite =>
          LET a1 == state.registers[5]
              n == Least(4 - (Lo(a1) % 4), AsNat(state.registers[6]))
              pd == PageData(memory, cells)
          IN  /\ ret'.op = "step" /\ ret'.ok
              /\ state'.preimage_key
                    = SubSeq(state.preimage_key, n + 1, 2 ^ LEAF_BITS) \o BytesAt(pd, a1, n)
              /\ state'.preimage_offset = U32(0)
              /\ state'.registers[2] = U32(n)
              /\ state'.registers[7] = U32(0)
              /\ PageData(memory', cells') = pd]_vars

\* C22 witness: two writes of one byte from Data + 3 have shifted the key
\* 02 00 .. 00 07 to 00 .. 00 07 01 01 and reset preimage_offset from 6
C22_Witness ==
    /\ ret.op = "step" /\ ret.ok
    /\ state.step = MaxSteps
    /\ state.registers[4] = U32(6)
    /\ state.registers[5] = Add32(Data, U32(3))
    /\ state.preimage_key = [ZeroBlock EXCEPT ![2 ^ LEAF_BITS - 2] = 7,
                                              ![2 ^ LEAF_BITS - 1] = 1,
                                              ![2 ^ LEAF_BITS] = 1]
    /\ state.preimage_offset = U32(0)

\* a step is about to execute a read syscall whose a0 is none of 0, 3, 5 or
\* a write syscall whose a0 is none of 1, 2, 4, 6
AtBadFd ==
    /\ AtSyscall
    /\ \/ /\ state.registers[2] = SYS_READ
          /\ state.registers[4] \notin {U32(0), U32(3), U32(5)}
       \/ /\ state.registers[2] = SYS_WRITE
          /\ state.registers[4] \notin {U32(1), U32(2), U32(4), U32(6)}

\* C23: for every 32-bit value of a0, a read syscall with a0 not in
\* {0, 3, 5} and a write syscall with a0 not in {1, 2, 4, 6} (every a0 > 6,
\* values of 256 and above included) returns v0 = 0xFFFFFFFF and v1 = EBADF
\* (9), and changes no memory, preimage_key, preimage_offset or last_hint.
C23_BadFd ==
    [][AtBadFd =>
          /\ ret'.op = "step" /\ ret'.ok
          /\ state'.registers[2] = MAX32
          /\ state'.registers[7] = MIPS_EBADF
          /\ PageData(memory', cells') = PageData(memory, cells)
          /\ state'.preimage_key = state.preimage_key
          /\ state'.preimage_offset = state.preimage_offset
          /\ state'.last_hint = state.last_hint]_vars

\* C24: a syscall step whose r2 is none of 4003, 4004, 4045, 4055, 4090,
\* 4120, 4246 returns Ok, sets r2 := 0 and r7 := 0, advances pc := next_pc
\* and next_pc := next_pc + 4, and changes no other State field except the
\* step counter.
C24_UnknownSyscall ==
    [][(AtSyscall
        /\ state.registers[2] \notin {U32(4003), U32(4004), U32(4045), U32(4055),
                                       U32(4090), U32(4120), U32(4246)}) =>
          /\ ret'.op = "step" /\ ret'.ok
          /\ state' = [state EXCEPT !.registers = [@ EXCEPT ![2] = U32(0), ![7] = U32(0)],
                                    !.pc = state.next_pc,
                                    !.next_pc = Add32(state.next_pc, U32(4)),
                                    !.step = @ + 1]
          /\ PageData(memory', cells') = PageData(memory, cells)]_vars

\* C24 witness: the syscall numbered 4005 has cleared r2 and r7 (which held
\* 1) and advanced the pc
C24_Witness ==
    /\ ret.op = "step" /\ ret.ok
    /\ state.step = 1
    /\ Word(memory, cells, Add32(Base, U32(4))) = <<9 * 1024 + 2, 4005>>
    /\ state.registers[2] = U32(0) /\ state.registers[7] = U32(0)
    /\ state.pc = Add32(Base, U32(4))

\* C25: step is total: for every State and instruction it either completes
\* or returns an error value to its caller; no input panics inside step,
\* hint-write syscalls with arbitrary buffer contents and preimage reads at
\* any preimage_offset included.
C25_NoPanic == ret.op = "step" => ~ ret.panic

\* the oracle's get calls of a step
IsGet(event) == event[1] = "get"

\* C26: two InstrumentedStates that hold equal States and receive the same
\* oracle responses produce, for the same step(proof) call, equal
\* post-States and equal StepWitnesses, whatever steps each of them executed
\* earlier; and one step calls the oracle's get at most once. The second
\* InstrumentedState is a new one, made from the State of the first.
C26_OutputFromStateOnly ==
    [][ret'.op = "step" =>
          LET other == step([s |-> state, m |-> memory, c |-> cells,
                             i |-> InstrumentedNew, fx |-> NoEffects], ret'.proof)
          IN  /\ ret'.ok = other.ok
              /\ ret'.val = other.val
              /\ state' = other.vm.s
              /\ PageData(memory', cells') = PageData(other.vm.m, other.vm.c)
              /\ Len(SelectSeq(ret'.events, IsGet)) <= 1]_vars

\* the events the order of a step is about: the fetch, the data accesses,
\* the oracle access and the mutations of registers and pc/next_pc
IsOrdered(event) == event[1] \in {"fetch", "load", "store", "get", "reg", "pc"}

\* the place of an event in a step: fetch, data access, oracle, mutation
Rank(event) ==
    CASE event[1] = "fetch" -> 0
      [] event[1] \in {"load", "store"} -> 1
      [] event[1] = "get" -> 2
      [] event[1] \in {"reg", "pc"} -> 3

\* the place of an event in a step: fetch, data read, oracle, data write,
\* mutation
RankOfCode(event) ==
    CASE event[1] = "fetch" -> 0
      [] event[1] = "load" -> 1
      [] event[1] = "get" -> 2
      [] event[1] = "store" -> 3
      [] event[1] \in {"reg", "pc"} -> 4

\* C27: within every step the events occur in this order: the instruction
\* fetch at pc first, then every data memory access (read or write), then
\* the preimage-oracle access, and the mutation of registers and pc/next_pc
\* last
C27_EventOrder ==
    [][ret'.op = "step" =>
          LET events == SelectSeq(ret'.events, IsOrdered)
          IN  /\ events # <<>> => events[1] = <<"fetch", state.pc>>
              /\ \A i, j \in DOMAIN events :
                    i < j => /\ events[j][1] # "fetch"
                             /\ Rank(events[i]) <= Rank(events[j])]_vars

\* C27, as the code has it: within every step the instruction fetch at pc
\* comes first, then the data memory reads, then the preimage-oracle access,
\* then the data memory write (a read on fd 5 stores the bytes the oracle
\* returned), and the mutation of registers and pc/next_pc last, except
\* that sc sets rt to 1 before its store
C27_ReadOracleWrite ==
    [][ret'.op = "step" =>
          LET events == SelectSeq(ret'.events, IsOrdered)
          IN  /\ events # <<>> => events[1] = <<"fetch", state.pc>>
              /\ \A i, j \in DOMAIN events :
                    i < j => /\ events[j][1] # "fetch"
                             /\ \/ RankOfCode(events[i]) <= RankOfCode(events[j])
                                \/ /\ Opcode(Fetch) = 56
                                   /\ events[i] = <<"reg", RtReg(Fetch)>>
                                   /\ events[j][1] = "store"]_vars

\* a read on fd 5 that asked the oracle and stored what it returned
C27_Witness ==
    /\ ret.op = "step"
    /\ SelectSeq(ret.events, IsOrdered)
         = <<<<"fetch", Base>>, <<"load", Data>>, <<"get", Key1>>, <<"store", Data>>,
             <<"reg", 2>>, <<"reg", 7>>, <<"pc", Add32(Base, U32(4))>>>>

\* the frame of a hint by the wire format: u32 length (big-endian), then
\* the payload; the payloads of HintPayloads are shorter than 256 bytes
FrameOf(hint) == <<0, 0, 0, Len(hint)>> \o hint

\* C28: HintWriter::hint writes one frame (4-byte big-endian length ||
\* payload) and does not return until it has read the one-byte ACK; at most
\* one hint is unacknowledged at any time, and hint k+1 is never written
\* before the reader has finished handling hint k and sent its ACK
C28_OneUnacknowledged ==
    /\ [](/\ hint_writer.written - hint_reader.i \in {0, 1}
          /\ hint_writer.written - hint_writer.sent \in {0, 1}
          /\ hint_writer.pc # "read_ack" => hint_writer.written = hint_writer.sent)
    /\ [][hint_writer'.written # hint_writer.written =>
            /\ hint_writer'.written = hint_writer.written + 1
            /\ channel'.to_reader
                 = channel.to_reader \o FrameOf(hint_writer.hints[hint_writer.written + 1])
            /\ hint_reader.i = hint_writer.written
            /\ Len(hint_reader.received) = hint_writer.written
            /\ hint_reader.pc \in {"next_hint", "done"}
            /\ hint_writer.sent = hint_writer.written
            /\ hint_writer'.sent = hint_writer.sent]_vars
    /\ [][hint_writer'.sent # hint_writer.sent =>
            /\ hint_writer'.sent = hint_writer.sent + 1
            /\ channel.to_writer = <<0>>
            /\ channel'.to_writer = <<>>
            /\ hint_reader.i = hint_writer'.sent]_vars

\* the second hint is written and waits for its ACK, the first is handled
C28_Witness ==
    /\ hint_writer # <<>>
    /\ hint_writer.written = 2
    /\ hint_writer.pc = "read_ack"
    /\ hint_reader.i = 1
    /\ channel.to_reader = FrameOf(hint_writer.hints[2])

\* C29: HintReader::next_hint writes the ACK byte whether the handler
\* succeeds or fails: when the handler returns an error next_hint returns
\* an error, the blocked writer's hint() call still returns Ok, and a
\* following next_hint call receives the next hint frame intact
C29_AckOnError ==
    /\ [][hint_reader.pc = "write_ack" /\ hint_reader'.pc # "write_ack" =>
            LET k == hint_reader.i + 1
            IN  /\ channel'.to_writer = Append(channel.to_writer, 0)
                /\ hint_reader'.i = k
                /\ hint_reader'.results
                     = Append(hint_reader.results,
                              IF hint_reader.routers[k] THEN "Ok(false)" ELSE "Err")
                /\ Len(hint_reader.received) = k
                /\ hint_reader.received[k] = hint_writer.hints[k]
                /\ channel.to_reader = <<>>]_vars
    /\ [](\A k \in DOMAIN hint_writer.results : hint_writer.results[k] = "Ok")
    /\ \A k \in 1..(MaxHints + 1) :
          (hint_reader.pc = "write_ack" /\ hint_reader.i + 1 = k /\ ~ hint_reader.router_ok)
             ~> (hint_writer.sent >= k /\ Len(hint_writer.results) >= k)

\* the handler of the first hint failed, the writer's first hint() returned
\* Ok, and the second next_hint handled the second hint
C29_Witness ==
    /\ hint_reader # <<>>
    /\ Len(hint_reader.results) >= 2
    /\ hint_reader.results[1] = "Err"
    /\ hint_reader.results[2] = "Ok(false)"
    /\ hint_writer.results[1] = "Ok"
    /\ hint_writer.hints[1] # hint_writer.hints[2]
    /\ hint_reader.received[2] = hint_writer.hints[2]

\* C30: for every finite sequence of hints (empty payloads included) sent
\* by a HintWriter to a concurrently running HintReader over a
\* bidirectional channel, the handler is invoked exactly once per hint, in
\* sending order and with the sent payload, and both sides terminate
C30_ExactlyOnceInOrder ==
    /\ [](/\ Len(hint_reader.received) <= Len(hint_writer.hints)
          /\ \A k \in DOMAIN hint_reader.received :
                hint_reader.received[k] = hint_writer.hints[k])
    /\ <>[](/\ hint_writer.pc = "done"
            /\ hint_reader.pc = "done"
            /\ hint_writer.sent = Len(hint_writer.hints)
            /\ hint_reader.received = hint_writer.hints
            /\ channel.to_reader = <<>>
            /\ channel.to_writer = <<>>)

\* three hints, one of them empty, were handled and both tasks have ended
C30_Witness ==
    /\ hint_writer # <<>>
    /\ hint_writer.pc = "done"
    /\ hint_reader.pc = "done"
    /\ Len(hint_writer.hints) = 3
    /\ hint_writer.hints[2] = <<>>
    /\ hint_writer.hints[1] # hint_writer.hints[3]
    /\ hint_reader.received = hint_writer.hints

\* C31: for every key the getter can answer, a zero-length preimage
\* included, OracleClient::get(key) running concurrently with one
\* OracleServer::new_preimage_request returns exactly the getter's bytes
\* for that key, both calls terminate, and no message is left in either
\* channel afterwards: consecutive requests each receive their own response
C31_RequestResponse ==
    /\ [](\A k \in DOMAIN oracle_client.results :
             oracle_client.results[k] = oracle_client.preimages[k])
    /\ [](oracle_client.pc = "end" /\ oracle_server.pc = "end" =>
             /\ mpsc.to_server = <<>>
             /\ mpsc.to_client = <<>>
             /\ Len(oracle_client.results) = oracle_server.served)
    /\ <>[](/\ oracle_client.pc = "end"
            /\ oracle_server.pc = "end"
            /\ oracle_client.done = Len(oracle_client.preimages)
            /\ oracle_client.results = oracle_client.preimages)

\* three requests, the first for the empty preimage, were answered
C31_Witness ==
    /\ oracle_client # <<>>
    /\ oracle_client.done = 3
    /\ oracle_client.preimages[1] = <<>>
    /\ oracle_client.preimages[2] # <<>>
    /\ oracle_client.preimages[3] # oracle_client.preimages[2]
    /\ oracle_client.results = oracle_client.preimages
    /\ oracle_server.served = 3

\* a decimal number: one digit or more, nothing else
IsDecimal(src) == src # <<>> /\ \A k \in DOMAIN src : src[k] \in Digits

\* C32: create_matcher maps never (and an absent pattern) to a matcher that
\* matches no step, always to one that matches every step, =N to one that
\* matches exactly step N and %N to one that matches exactly the steps with
\* step mod N = 0, for every decimal N; every other string is rejected;
\* and matches(step) returns a boolean for every accepted pattern and step
C32_Matcher ==
    /\ ret.op = "create_matcher" =>
          ret.ok = \/ kernel.pattern \in {None, Some(Never), Some(Always)}
                   \/ /\ kernel.pattern[1] # <<>>
                      /\ kernel.pattern[1][1] \in {"=", "%"}
                      /\ IsDecimal(Tail(kernel.pattern[1]))
    /\ ret.op = "matches" =>
          /\ ~ ret.panic
          /\ ret.val = CASE kernel.pattern \in {None, Some(Never)} -> FALSE
                         [] kernel.pattern = Some(Always) -> TRUE
                         [] kernel.pattern \notin {None, Some(Never), Some(Always)}
                              /\ kernel.pattern[1][1] = "=" ->
                                ret.value = DecimalValue(Tail(kernel.pattern[1]))
                         [] kernel.pattern \notin {None, Some(Never), Some(Always)}
                              /\ kernel.pattern[1][1] = "%" ->
                                ret.value % DecimalValue(Tail(kernel.pattern[1])) = 0

\* bit i of a 32-bit value
BitOf(x, i) == IF i < 16 THEN (Lo(x) \div (2 ^ i)) % 2 ELSE (Hi(x) \div (2 ^ (i - 16))) % 2

\* bit i of rt shifted by n as the function says: left, right logical,
\* right arithmetic
ShiftedBit(fun, rt, n, i) ==
    CASE fun \in {0, 4} -> IF i >= n THEN BitOf(rt, i - n) ELSE 0
      [] fun \in {2, 6} -> IF i + n <= 31 THEN BitOf(rt, i + n) ELSE 0
      [] fun \in {3, 7} -> IF i + n <= 31 THEN BitOf(rt, i + n) ELSE BitOf(rt, 31)

\* C33: for all 32-bit operand values sll, srl and sra shift rt by the
\* 5-bit shamt, and sllv, srlv and srav shift rt by rs & 0x1F; sra and srav
\* replicate bit 31 of rt into the vacated bits; a shift amount of 0
\* returns rt unchanged and the result of a variable shift never depends
\* on bits 5..31 of rs
C33_Shifts ==
    ret.op = "execute" =>
        LET n == IF ret.fun \in {0, 2, 3} THEN ret.shamt ELSE Lo(ret.rs) % 32
        IN  /\ ~ ret.panic
            /\ ret.ok
            /\ \A i \in 0..31 : BitOf(ret.val, i) = ShiftedBit(ret.fun, ret.rt, n, i)

\* C34: the oracle's get(key) is called only by a read syscall on fd 5
\* whose state.preimage_key differs from the key of the most recently
\* fetched preimage; a run of fd-5 reads with an unchanged preimage_key
\* calls get at most once, and every read of the run returns bytes of that
\* one (8-byte length || data) response: after each such read the cached
\* pair is the key and its response, and the bytes stored come from it
C34_PreimageCache ==
    [][ret'.op = "step" =>
          LET gets == SelectSeq(ret'.events, IsGet)
              key == state.preimage_key
              stream == LenToBeBytes(Len(Oracle(key))) \o Oracle(key)
              offset == AsNat(state.preimage_offset)
              n == AsNat(state'.registers[2])
          IN  /\ gets # <<>> =>
                    /\ AtSyscall
                    /\ state.registers[2] = SYS_READ
                    /\ state.registers[4] = U32(5)
                    /\ inst.last_preimage = <<>> \/ key # inst.last_preimage_key
                    /\ gets = <<<<"get", key>>>>
              /\ (AtPreimageRead /\ state.registers[4] = U32(5) /\ ret'.ok) =>
                    /\ inst'.last_preimage_key = key
                    /\ inst'.last_preimage = stream
                    /\ gets = <<>> <=> (inst.last_preimage_key = key
                                        /\ inst.last_preimage = stream)
                    /\ BytesAt(PageData(memory', cells'), state.registers[5], n)
                          = SubSeq(stream, offset + 1, offset + n)]_vars

\* the transitions of run that leave the position pos
Leaves(pos) == kernel.pos = pos /\ kernel'.pos # pos

\* the final state is where `output` says: printed when there is no output,
\* in the file otherwise
FinalStateWritten ==
    LET final == SerializeState(state, memory, cells)
    IN  IF kernel.output = None THEN kernel.stdout = <<final>>
        ELSE /\ kernel.output[1] \in DOMAIN kernel.files
             /\ kernel.files[kernel.output[1]] = final

\* C35: every iteration of Kernel::run does the stop check, then the
\* snapshot, then exactly one step, which is step(true) exactly when proof_at
\* matches the step counter before it; step is never called on an exited
\* State or at a step counter that stop_at matches; and once the State has
\* exited or stop_at matches, run writes the final state and returns Ok
C35_RunLoop ==
    /\ [][/\ Leaves("loop") =>
                /\ kernel'.pos \in {"snapshot", "output"}
                /\ kernel'.pos = "output" <=>
                      (state.exited \/ matches(kernel.stop_at, state.step).val)
          /\ Leaves("snapshot") => kernel'.pos = "step"
          /\ Leaves("step") =>
                /\ ret.op = "snapshot"
                /\ ret'.stepped
                /\ ret'.proof <=> matches(kernel.proof_at, state.step).val
                /\ ~ state.exited
                /\ ~ matches(kernel.stop_at, state.step).val
                /\ ret'.ok => state'.step = state.step + 1]_vars
    /\ [](kernel.pos = "done" /\ state.exited => kernel.result = "Ok")
    /\ [](kernel.result = "Ok" => FinalStateWritten)
    /\ (kernel.pos = "output") ~> (kernel.result = "Ok")

\* the page that the map holds for page_index, if any
PageOf(m, page_index) ==
    IF page_index \in DOMAIN m.pages THEN m.pages[page_index] ELSE NO_PAGE

\* C36: the last_page cache is transparent: page_lookup(i) returns the page
\* stored under pages[i], or nothing when the map has no entry i, whatever
\* calls came before; get_memory reads and set_memory writes the page of
\* the map
C36_CacheTransparent ==
    /\ [](\A i \in PageIndices : page_lookup(memory, i).page = PageOf(memory, i))
    /\ [][/\ ret'.op = "get_memory" /\ ret'.ok =>
                ret'.val = IF PageIndexOf(ret'.address) \in DOMAIN memory'.pages
                           THEN from_be_bytes(
                                    [k \in 1..4 |->
                                        PageData(memory', cells')[PageIndexOf(ret'.address)]
                                            [PageAddrOf(ret'.address) + k - 1]])
                           ELSE U32(0)
          /\ ret'.op = "set_memory" /\ ret'.ok =>
                /\ PageIndexOf(ret'.address) \in DOMAIN memory'.pages
                /\ [k \in 1..4 |->
                       PageData(memory', cells')[PageIndexOf(ret'.address)]
                           [PageAddrOf(ret'.address) + k - 1]]
                     = to_be_bytes(ret'.value)]_vars

\* C37: step(true) and step(false) have the same outcome and leave the same
\* State, memory contents and merkle root included; step(true) only adds the
\* witness
C37_ProofTransparent ==
    [][ret'.op = "step" =>
          LET other == step([s |-> state, m |-> memory, c |-> cells, i |-> inst,
                             fx |-> NoEffects], ~ ret'.proof)
          IN  /\ other.ok = ret'.ok
              /\ other.vm.fx.panic = ret'.panic
              /\ other.vm.s = state'
              /\ PageData(other.vm.m, other.vm.c) = PageData(memory', cells')
              /\ merkle_root(other.vm.m, other.vm.c).val = merkle_root(memory', cells').val
              /\ (ret'.proof /\ ret'.ok /\ ~ state.exited) => ret'.val # None
              /\ ~ ret'.proof => ret'.val = None]_vars

\* a step with a proof that stored a word and returned its witness
C37_Witness ==
    /\ ret.op = "step" /\ ret.proof /\ ret.ok /\ ret.val # None
    /\ \E k \in DOMAIN ret.events : ret.events[k][1] = "store"

\* C38: a step that returns an error leaves pc, next_pc, the registers, hi,
\* lo, heap, exited, exit_code, preimage_key, preimage_offset and the memory
\* contents as they were; the step counter has advanced, and last_hint may
\* have grown
C38_ErrorLeavesState ==
    [][(ret'.op = "step" /\ ~ ret'.ok /\ ~ ret'.panic) =>
          /\ [state' EXCEPT !.step = state.step, !.last_hint = state.last_hint] = state
          /\ state'.step = state.step + 1
          /\ Len(state'.last_hint) >= Len(state.last_hint)
          /\ NonZeroPages(memory', cells') = NonZeroPages(memory, cells)]_vars

\* a write to the hint descriptor failed in PreimageOracle::hint, after
\* last_hint had taken the bytes
C38_Witness ==
    /\ ret.op = "step" /\ ~ ret.ok /\ ~ ret.panic
    /\ state.last_hint # <<>>
    /\ \E k \in DOMAIN ret.events : ret.events[k][1] = "hint"

\* what a Memory shows: the words at CloneAddrs and the merkle root
Observed(m, c) ==
    [words |-> [a \in CloneAddrs |-> get_memory(m, c, a).val],
     root  |-> merkle_root(m, c).val]

\* C39: a clone of a Memory is independent of the original: a set_memory or
\* set_memory_range on one copy changes neither what get_memory returns on
\* the other copy nor its merkle_root()
C39_CloneIndependent ==
    [][(clone # <<>> /\ clone' # <<>>) =>
          /\ ret'.op \in {"clone_set_memory", "clone_set_memory_range"} =>
                Observed(memory', cells') = Observed(memory, cells)
          /\ ret'.op \in {"set_memory", "set_memory_range"} =>
                Observed(clone'[1], cells') = Observed(clone[1], cells)]_vars

\* the task spawned by the transition, if it spawned one
Spawned == Len(kernel'.io_tasks) = Len(kernel.io_tasks) + 1

NewTask == kernel'.io_tasks[Len(kernel'.io_tasks)]

\* C40: the snapshot requested at step s holds the State as of step s, the
\* proof requested at step s the state hashes before and after step s and
\* the witness of that step, whatever steps run before the task writes the
\* file; and when run returns Ok every snapshot and proof requested is in
\* its file
C40_SnapshotsAndProofs ==
    /\ [][/\ (Leaves("snapshot") /\ Spawned) =>
                /\ NewTask.kind = "snapshot" /\ NewTask.step = state.step
                /\ NewTask.contents = SerializeState(state, memory, cells)
          /\ (Leaves("step") /\ Spawned) =>
                /\ NewTask.kind = "proof" /\ NewTask.step = state.step
                /\ NewTask.contents.step = state.step
                /\ NewTask.contents.pre =
                      state_hash(StateWitnessBytes(encode_witness(state, memory, cells).val))
                /\ NewTask.contents.post =
                      state_hash(StateWitnessBytes(encode_witness(state', memory', cells').val))
                /\ NewTask.contents.state_data = encode_witness(state, memory, cells).val
                /\ NewTask.contents.proof_data = ret'.val[1].mem_proof
          /\ \A k \in DOMAIN kernel.io_tasks :
                /\ k \in DOMAIN kernel'.io_tasks
                /\ [kernel'.io_tasks[k] EXCEPT !.done = FALSE]
                      = [kernel.io_tasks[k] EXCEPT !.done = FALSE]]_vars
    /\ [](kernel.result = "Ok" =>
             \A k \in DOMAIN kernel.io_tasks :
                /\ kernel.io_tasks[k].done
                /\ kernel.io_tasks[k].path \in DOMAIN kernel.files
                /\ kernel.files[kernel.io_tasks[k].path] = kernel.io_tasks[k].contents)

====
